---- MODULE Spec2Model ----
(***************************************************************************)
(* Grid bot: the anchor-based reconciliation engine (BotEngine), the order *)
(* reconciler (OrderExecutor.syncActiveOrders) and the price ladder        *)
(* (GridContext).  Prices are integers (multiples of the tick size).       *)
(*                                                                         *)
(* The engine runs on one JavaScript event loop: code between two awaits   *)
(* of an I/O call is one atomic step, and the continuations of resolved    *)
(* promises (a released mutex, a returned Refresh) run before the next I/O *)
(* event is delivered.  Each action below is one such step.                *)
(***************************************************************************)
EXTENDS Integers, Sequences, FiniteSets, TLC

\* ------------------------------------------------------------------ bounds
MaxBatchLen == 1       \* orders in one batch
MaxClockSteps == 1     \* advances of the wall clock
MaxOrderIds == 2       \* order ids handed out before the venue's last batch create
MaxWindow == 3         \* window sizes drawn for the order window
MaxSyncPasses == 2     \* sync passes one Refresh call may need (with / without close targets)
PassCap == 3           \* the pass counter saturates here

\* ------------------------------------------------------------ configuration
UNDEFINED == -1                      \* a missing Record entry (anchorIndices[k] === undefined)
NULL == <<>>                         \* getNearestLevels' null

\* strategies of config.strategies, in order; both trade the same symbol
gridContexts ==
  << [symbol |-> "SOL", direction |-> "LONG",  lowerPrice |-> 100, upperPrice |-> 145,
      quantityPerGrid |-> 1],
     [symbol |-> "SOL", direction |-> "SHORT", lowerPrice |-> 100, upperPrice |-> 145,
      quantityPerGrid |-> 1] >>

\* the ladder of both strategies: calculateLevels for lower 100, upper 145,
\* spread 10 %, tick 1 (running price 100, 110, 121, 133.1, 146.41)
levels == <<100, 110, 121, 133, 146>>

order_window == 1                    \* appConfig.default.order_window || 1
CooldownMs == 5000                   \* drift reset cooldown
\* the wall clock (Date.now(), ms): its value at start and the modelled granularity
clock == [start |-> 10000, step |-> 5000]

Ctx == 1..Len(gridContexts)
\* one key, hence one lock, per symbol
getStratKey_perSymbol(symbol, direction) == <<symbol, "LONG">>
\* `${symbol}_${direction}`
getStratKey(symbol, direction) == <<symbol, direction>>
keyOf(i) == getStratKey(gridContexts[i].symbol, gridContexts[i].direction)
StratKeys == {keyOf(i) : i \in Ctx}
TaskKinds == {"init", "fill", "drift"}
Tasks == Ctx \X TaskKinds

\* ------------------------------------------------------------------ inputs
InitPrices == {115, 150}             \* fetchTicker during initial positioning
TickerPrices == {101, 139, 150}      \* watchTicker / fetchTicker while running
orderUpdate(side, price, tradeSide, status, filled) ==
  [symbol |-> "SOL", side |-> side, price |-> price, tradeSide |-> tradeSide,
   status |-> status, filled |-> filled]
OrderUpdates ==
  { orderUpdate("buy", 133, "open", "filled", 1),
    orderUpdate("buy", 110, "close", "closed", 1),
    orderUpdate("sell", 110, "open", "filled", 1),
    orderUpdate("buy", 110, "open", "open", 0),
    \* watchOrders() without a symbol also delivers the account's other markets
    [orderUpdate("buy", 110, "open", "filled", 1) EXCEPT !.symbol = "ETH"] }

RECURSIVE SeqsUpTo(_, _)
SeqsUpTo(S, n) ==
  IF n = 0 THEN {<<>>}
  ELSE LET shorter == SeqsUpTo(S, n - 1)
       IN shorter \cup {Append(q, e) : q \in {r \in shorter : Len(r) = n - 1}, e \in S}
Batches == SeqsUpTo(OrderUpdates, MaxBatchLen)

\* ----------------------------------------------------------- pure helpers
Abs(x) == IF x < 0 THEN -x ELSE x
Max2(a, b) == IF a > b THEN a ELSE b
Min2(a, b) == IF a < b THEN a ELSE b
SetMin(S) == CHOOSE m \in S : \A o \in S : m <= o
priceAt(idx) == levels[idx + 1]      \* levels[idx].price, idx 0-based as in the code

\* currentPrice >= upperPrice || currentPrice <= lowerPrice
outOfRange(cfg, currentPrice) ==
  currentPrice >= cfg.upperPrice \/ currentPrice <= cfg.lowerPrice

\* GridContext.getNearestLevels over the prices of this.levels:
\* <<lower index, upper index>> (0-based) of the first interval that holds
\* currentPrice, or NULL
nearestIn(prices, cfg, currentPrice) ==
  IF Len(prices) < 2 THEN NULL
  ELSE IF outOfRange(cfg, currentPrice) THEN NULL
  ELSE LET hits == {i \in 0..(Len(prices) - 2) :
                      currentPrice >= prices[i + 1] /\ currentPrice <= prices[i + 2]}
       IN IF hits = {} THEN NULL ELSE <<SetMin(hits), SetMin(hits) + 1>>

\* getNearestLevels of a strategy of the engine (the ladder above)
getNearestLevels(cfg, currentPrice) == nearestIn(levels, cfg, currentPrice)

\* an index one above the bracket
closestIndex_above(nearest, price) == nearest[2] + 1

\* the bracket level closer to price (the upper one on a tie)
closestIn(prices, nearest, price) ==
  IF Abs(prices[nearest[1] + 1] - price) < Abs(prices[nearest[2] + 1] - price)
  THEN nearest[1] ELSE nearest[2]

\* the same on the ladder of the engine's strategies
closestIndex(nearest, price) == closestIn(levels, nearest, price)

\* ------------------------------------------- Refresh: the order window
target(idx, cfg, action) ==
  [price |-> priceAt(idx), amount |-> cfg.quantityPerGrid, action |-> action]

\* a first loop that pushes nothing
lowerWindow_empty(cfg, anchorIndex, windowSize, i) == <<>>

\* first loop: levels below the anchor (buy zone)
RECURSIVE lowerWindow(_, _, _, _)
lowerWindow(cfg, anchorIndex, windowSize, i) ==
  IF i > windowSize \/ anchorIndex - i < 0 THEN <<>>
  ELSE <<target(anchorIndex - i, cfg, IF cfg.direction = "LONG" THEN "open" ELSE "close")>>
       \o lowerWindow(cfg, anchorIndex, windowSize, i + 1)

\* second loop: levels above the anchor (sell zone); a LONG close is skipped
\* (continue) while close orders are disabled
RECURSIVE upperWindow(_, _, _, _, _)
upperWindow(cfg, anchorIndex, closeDisabled, windowSize, i) ==
  IF i > windowSize \/ anchorIndex + i >= Len(levels) THEN <<>>
  ELSE LET isLongClose == cfg.direction = "LONG"
           rest == upperWindow(cfg, anchorIndex, closeDisabled, windowSize, i + 1)
       IN IF isLongClose /\ closeDisabled THEN rest
          ELSE <<target(anchorIndex + i, cfg, IF isLongClose THEN "close" ELSE "open")>>
               \o rest

removeAt(seq, i) == SubSeq(seq, 1, i) \o SubSeq(seq, i + 2, Len(seq))   \* splice(i, 1), i 0-based

\* an in-place removal that does not step back after splice(i, 1)
RECURSIVE spliceCloseTargets_skip(_, _, _, _)
spliceCloseTargets_skip(cfg, closeDisabled, targets, i) ==
  IF i >= Len(targets) THEN targets
  ELSE IF cfg.direction = "SHORT" /\ targets[i + 1].action = "close" /\ closeDisabled
       THEN spliceCloseTargets_skip(cfg, closeDisabled, removeAt(targets, i), i + 1)
       ELSE spliceCloseTargets_skip(cfg, closeDisabled, targets, i + 1)

\* third loop: in-place removal of the SHORT close targets (splice(i, 1); i--)
RECURSIVE spliceCloseTargets(_, _, _, _)
spliceCloseTargets(cfg, closeDisabled, targets, i) ==
  IF i >= Len(targets) THEN targets
  ELSE IF cfg.direction = "SHORT" /\ targets[i + 1].action = "close" /\ closeDisabled
       THEN spliceCloseTargets(cfg, closeDisabled, removeAt(targets, i), (i - 1) + 1)
       ELSE spliceCloseTargets(cfg, closeDisabled, targets, i + 1)

windowTargets(cfg, anchorIndex, closeDisabled, windowSize) ==
  spliceCloseTargets(cfg, closeDisabled,
                     lowerWindow(cfg, anchorIndex, windowSize, 1)
                     \o upperWindow(cfg, anchorIndex, closeDisabled, windowSize, 1),
                     0)

\* ------------------------------------------------------------------- state
VARIABLES
  appConfig,            \* appConfig.default: the flags the event loops read
  isRunning,            \* BotEngine.isRunning
  anchorIndices,        \* stratKey -> anchor index, UNDEFINED when not set
  lastAnchorResetTime,  \* stratKey -> time of the last drift reset (0: never)
  isCloseDisabled,      \* stratKey -> close orders disabled
  stratLocks,           \* stratKey -> the Mutex: holder first, then the waiters (FIFO)
  mainPc,               \* start(): "initTicker", "initRefresh", "started", "failed"
  startIdx,             \* start(): the strategy being positioned
  rpc,                  \* task -> where its Refresh call is: "idle", "queued" (waits
                        \*         for the lock), "sync" (awaits inside syncActiveOrders)
  syncTargets,          \* task -> the targets passed to the sync in flight
  ordersLoop,           \* watchOrdersLoop: "off", "await", "ticker", "handling", "exited"
  batch,                \* watchOrdersLoop: the orders of the batch not yet done (head: current)
  tickerLoop,           \* ctx -> watchTickerLoop: "off", "await", "refresh", "exited"
  stopPc,               \* stop(): "none", "cleanup", "closed" (the process has exited)
  stopCalls,            \* stop(): the cleanup calls still to make (the first is in flight)
  now,                  \* Date.now()
  passes,               \* history: task -> sync passes of its current Refresh call
  syncNote,             \* history: the last step's sync had its batch create rejected
                        \*          with no-position, and what the sync then threw
  driftNote,            \* history: the drift reset the last step made
  fillNote,             \* history: ctx -> the fill the last step's handler processed
  writes,               \* history: the writes to AnchorState made by the last step
  loopNote,             \* history: the inputs of the last step that the state does not
                        \*          show (initial ticker, skipped updates, tickers without
                        \*          an anchor, loop errors)
  \* -- one OrderExecutor against the venue (the calls of one strategy key)
  venueOrders,          \* the venue: the open orders of the symbol
  nextOrderId,          \* the venue: the id the next created order gets
  singleCancels,        \* cancelOrder requests sent and not awaited, still in flight
  localOrderCache,      \* OrderExecutor.localOrderCache[cacheKey]
  syncPc,               \* syncActiveOrders: "idle", or the call it awaits
  syncDirection,        \* syncActiveOrders: its argument direction
  targetLevels,         \* syncActiveOrders: its argument
  ordersToCancel,       \* syncActiveOrders: ids to cancel
  batchCreates,         \* syncActiveOrders: orders to create
  previousCall,         \* history: the last call that returned
  thisCall,             \* history: what the running call issued and got applied so far
  diffNote,             \* history: the diff, or the placeGridOrder call, of the last step
  \* -- the order window of one Refresh pass, as a function of its inputs
  windowIn,             \* the strategy, anchor, closeDisabled flag and window size
  windowOut,            \* the targets computed for windowIn (NULL: not computed yet)
  \* -- one GridContext and its ledger file over the lives of the process
  gcConfig,             \* GridContext.config (NULL: no context constructed yet)
  gcTick,               \* the tickSize initialize() was called with
  gcLevels,             \* GridContext.levels
  gcPc,                 \* "none", "ready" (initialize returned) or "building"
                        \*   (calculateLevels is still inside its while loop)
  csvFile,              \* the file at csvPath: NULL (absent) or its lines
  lives,                \* processes started so far
  recorded,             \* updateOrder calls made so far
  savedLevels,          \* history: this.levels at the last saveToCsv
  savedConfig,          \* history: this.config at the last saveToCsv
  initNote,             \* history: what the last step's initialize() did
  nearestNote,          \* history: the last step's getNearestLevels call
  updateNote,           \* history: the last step's updateOrder call
  \* --- one strategy's anchor over a ladder built by calculateLevels
  tkConfig,             \* the strategy's GridConfig
  tkLevels,             \* the prices of context.getLevels()
  tkAnchor,             \* anchorIndices[stratKey]
  tkLastReset,          \* lastAnchorResetTime[stratKey] || 0
  tkNow,                \* Date.now()
  tkNote                \* history: the ticker the last step handled

engineVars ==
  <<appConfig, isRunning, anchorIndices, lastAnchorResetTime, isCloseDisabled,
    stratLocks, mainPc, startIdx, rpc, syncTargets, ordersLoop, batch,
    tickerLoop, stopPc, stopCalls, now, passes, syncNote, driftNote, fillNote, writes,
    loopNote>>

executorVars ==
  <<venueOrders, nextOrderId, singleCancels, localOrderCache, syncPc, syncDirection,
    targetLevels,
    ordersToCancel, batchCreates, previousCall, thisCall, diffNote>>

windowVars == <<windowIn, windowOut>>

ladderVars ==
  <<gcConfig, gcTick, gcLevels, gcPc, csvFile, lives, recorded, savedLevels, savedConfig,
    initNote, nearestNote, updateNote>>

tickerVars == <<tkConfig, tkLevels, tkAnchor, tkLastReset, tkNow, tkNote>>

vars == <<engineVars, executorVars, windowVars, ladderVars, tickerVars>>

Cur ==
  [appConfig |-> appConfig, isRunning |-> isRunning, anchorIndices |-> anchorIndices,
   lastAnchorResetTime |-> lastAnchorResetTime, isCloseDisabled |-> isCloseDisabled,
   stratLocks |-> stratLocks, mainPc |-> mainPc, startIdx |-> startIdx, rpc |-> rpc,
   syncTargets |-> syncTargets, ordersLoop |-> ordersLoop,
   batch |-> batch, tickerLoop |-> tickerLoop, stopPc |-> stopPc, stopCalls |-> stopCalls,
   now |-> now,
   passes |-> passes, syncNote |-> syncNote, driftNote |-> driftNote,
   fillNote |-> fillNote, writes |-> writes, loopNote |-> loopNote]

\* the state a step starts from: the per-step history is cleared
Base == [Cur EXCEPT !.syncNote = NULL, !.driftNote = NULL,
                    !.fillNote = [i \in Ctx |-> NULL], !.writes = {}, !.loopNote = {}]

CommitState(s) ==
  /\ appConfig' = s.appConfig
  /\ isRunning' = s.isRunning
  /\ anchorIndices' = s.anchorIndices
  /\ lastAnchorResetTime' = s.lastAnchorResetTime
  /\ isCloseDisabled' = s.isCloseDisabled
  /\ stratLocks' = s.stratLocks
  /\ mainPc' = s.mainPc
  /\ startIdx' = s.startIdx
  /\ rpc' = s.rpc
  /\ syncTargets' = s.syncTargets
  /\ ordersLoop' = s.ordersLoop
  /\ batch' = s.batch
  /\ tickerLoop' = s.tickerLoop
  /\ stopPc' = s.stopPc
  /\ stopCalls' = s.stopCalls
  /\ now' = s.now
  /\ passes' = s.passes
  /\ syncNote' = s.syncNote
  /\ driftNote' = s.driftNote
  /\ fillNote' = s.fillNote
  /\ writes' = s.writes
  /\ loopNote' = s.loopNote
  /\ UNCHANGED <<executorVars, windowVars, ladderVars, tickerVars>>

\* the step's result, computed once
Commit(s) == \E r \in {s} : CommitState(r)

InitEngine ==
  /\ appConfig \in [follow_market_on_fill : BOOLEAN]
  /\ isRunning = FALSE
  /\ anchorIndices = [k \in StratKeys |-> UNDEFINED]
  /\ lastAnchorResetTime = [k \in StratKeys |-> 0]
  /\ isCloseDisabled = [k \in StratKeys |-> FALSE]
  /\ stratLocks = [k \in StratKeys |-> <<>>]
  /\ mainPc = "initTicker"
  /\ startIdx = 1
  /\ rpc = [x \in Tasks |-> "idle"]
  /\ syncTargets = [x \in Tasks |-> <<>>]
  /\ ordersLoop = "off"
  /\ batch = <<>>
  /\ tickerLoop = [i \in Ctx |-> "off"]
  /\ stopPc = "none"
  /\ stopCalls = <<>>
  /\ now = clock.start
  /\ passes = [x \in Tasks |-> 0]
  /\ syncNote = NULL
  /\ driftNote = NULL
  /\ fillNote = [i \in Ctx |-> NULL]
  /\ writes = {}
  /\ loopNote = {}

InitExecutor ==
  /\ venueOrders = {}
  /\ nextOrderId = 1
  /\ singleCancels = {}
  /\ localOrderCache = [k \in StratKeys |-> {}]
  /\ syncPc = "idle"
  /\ syncDirection = "LONG"
  /\ targetLevels = <<>>
  /\ ordersToCancel = <<>>
  /\ batchCreates = <<>>
  /\ previousCall = NULL
  /\ thisCall = NULL
  /\ diffNote = NULL

\* no GridContext constructed, no ledger file written
InitLadder ==
  /\ gcConfig = NULL /\ gcTick = 0 /\ gcLevels = <<>> /\ gcPc = "none"
  /\ csvFile = NULL /\ lives = 0 /\ recorded = 0
  /\ savedLevels = <<>> /\ savedConfig = NULL /\ initNote = "" /\ nearestNote = NULL
  /\ updateNote = NULL

\* no ladder under a ticker
InitTickerNone ==
  /\ tkConfig = NULL /\ tkLevels = <<>> /\ tkAnchor = UNDEFINED
  /\ tkLastReset = 0 /\ tkNow = clock.start /\ tkNote = NULL

Init ==
  /\ InitEngine
  /\ InitExecutor
  /\ windowIn = NULL
  /\ windowOut = NULL
  /\ InitLadder
  /\ InitTickerNone

\* ------------------------------------------------------ the strategy lock
\* a mutex that never makes a caller wait
isLocked_never(mutex) == FALSE

\* Mutex.isLocked: acquire() resolves at once on a free mutex and queues otherwise
isLocked(mutex) == mutex # <<>>
holdsLock(s, x) ==
  LET mutex == s.stratLocks[keyOf(x[1])] IN mutex # <<>> /\ Head(mutex) = x

\* history: task x writes a field of its strategy's AnchorState
noteWrite(s, field, x) ==
  [s EXCEPT !.writes = @ \cup {[field |-> field, key |-> keyOf(x[1]),
                                 by |-> x[2], locked |-> holdsLock(s, x)]}]

\* history: an input handled in this step
loopEvent(kind, ctx, symbol, price, status, filled) ==
  [kind |-> kind, ctx |-> ctx, symbol |-> symbol, price |-> price,
   status |-> status, filled |-> filled]
noteEvent(s, e) == [s EXCEPT !.loopNote = @ \cup {e}]
noteTicker(s, kind, i, price) ==
  noteEvent(s, loopEvent(kind, i, gridContexts[i].symbol, price, "", 0))
noteOrder(s, kind, order) ==
  noteEvent(s, loopEvent(kind, 0, order.symbol, order.price, order.status, order.filled))

\* while (this.isRunning): await the next event, or leave the loop
loopTop(running) == IF running THEN "await" ELSE "exited"

\* a loop that gives up on its first error
afterLoopError_ends(running) == "exited"

\* catch (error) { log; sleep one second }: the error stays inside the while
\* body, whose condition is tested next
afterLoopError(running) == loopTop(running)

\* ------------------------------------------------- start(): after a strategy
\* the loop of start() goes on to the next strategy; after the last one it sets
\* isRunning and launches watchOrdersLoop and one watchTickerLoop per strategy,
\* each of which runs to its first await
startContinue(s) ==
  IF s.startIdx < Len(gridContexts)
  THEN [s EXCEPT !.startIdx = @ + 1, !.mainPc = "initTicker"]
  ELSE [s EXCEPT !.mainPc = "started", !.isRunning = TRUE,
                 !.ordersLoop = loopTop(TRUE),
                 !.tickerLoop = [i \in Ctx |-> loopTop(TRUE)]]

\* ------------------------------------------- refreshGridOrdersByAnchor
RECURSIVE refreshEnter(_, _)
RECURSIVE refreshExit(_, _)
RECURSIVE afterReturn(_, _)
RECURSIVE processOrders(_)
RECURSIVE fillAll(_, _, _)

\* one pass of the while (retrySync) loop, run by the lock's holder x: without an
\* anchor it breaks; otherwise it computes the window and calls syncActiveOrders,
\* which suspends in fetchOpenOrders
refreshEnter(s, x) ==
  LET config == gridContexts[x[1]]
      stratKey == keyOf(x[1])
      anchorIndex == s.anchorIndices[stratKey]
  IN IF anchorIndex = UNDEFINED THEN refreshExit(s, x)
     ELSE [s EXCEPT !.rpc[x] = "sync",
                    !.syncTargets[x] = windowTargets(config, anchorIndex,
                                                     s.isCloseDisabled[stratKey],
                                                     order_window),
                    !.passes[x] = Min2(@ + 1, PassCap)]

\* a Refresh that returns to its caller with the lock still held
refreshExit_keepLock(s, x) ==
  afterReturn([s EXCEPT !.rpc[x] = "idle", !.syncTargets[x] = <<>>, !.passes[x] = 0], x)

\* finally { release() }: the lock goes to the first waiter, whose Refresh runs
\* on; then the caller of the returned Refresh continues
refreshExit(s, x) ==
  LET stratKey == keyOf(x[1])
      waiters == SelectSeq(s.stratLocks[stratKey], LAMBDA y : y # x)
      s1 == [s EXCEPT !.stratLocks[stratKey] = waiters, !.rpc[x] = "idle",
                      !.syncTargets[x] = <<>>, !.passes[x] = 0]
      s2 == IF waiters = <<>> THEN s1 ELSE refreshEnter(s1, Head(waiters))
  IN afterReturn(s2, x)

\* const release = await this.getLock(stratKey).acquire()
refreshCall(s, x) ==
  LET stratKey == keyOf(x[1])
  IN IF isLocked(s.stratLocks[stratKey])
     THEN [s EXCEPT !.stratLocks[stratKey] = Append(@, x), !.rpc[x] = "queued"]
     ELSE refreshEnter([s EXCEPT !.stratLocks[stratKey] = <<x>> \o @], x)

\* a Promise.all that resolves with its first callback
promiseAllResolved_first(calls) == TRUE

\* await Promise.all(relatedContexts.map(...)): every callback has returned
promiseAllResolved(calls) == \A j \in Ctx : calls[<<j, "fill">>] = "idle"

\* the code after `await this.refreshGridOrdersByAnchor(ctx)` in the caller
afterReturn(s, x) ==
  CASE x[2] = "init" -> startContinue(s)
    [] x[2] = "drift" -> [s EXCEPT !.tickerLoop[x[1]] = loopTop(s.isRunning)]
    [] x[2] = "fill" ->
         \* Promise.all resolves when the handlers of all strategies are done
         IF promiseAllResolved(s.rpc)
         THEN processOrders([s EXCEPT !.batch = Tail(@)])
         ELSE s

\* ----------------------------------------------------- initialPositioning
\* an initial anchor at the upper level of the bracket
initialAnchor_upper(nearest) == nearest[2]

\* the initial anchor: nearest[0].index
initialAnchor(nearest) == nearest[1]

initialPositioning(s, i, currentPrice) ==
  LET config == gridContexts[i]
      x == <<i, "init">>
      nearest == getNearestLevels(config, currentPrice)
      s0 == noteTicker(s, "initTicker", i, currentPrice)
  IN IF nearest = NULL THEN startContinue(s0)
     ELSE refreshCall([noteWrite(s0, "anchorIndex", x) EXCEPT
                         !.anchorIndices[keyOf(i)] = initialAnchor(nearest),
                         !.mainPc = "initRefresh"], x)

\* ------------------------------------------ watchOrdersLoop: one fill
\* a fill handler without the profit-protection constraint
clampAnchor_none(direction, newAnchor, filledIdx) == newAnchor

\* the profit-protection constraint on the anchor of the strategy that was filled
clampAnchor(direction, newAnchor, filledIdx) ==
  IF direction = "LONG" THEN Max2(newAnchor, filledIdx) ELSE Min2(newAnchor, filledIdx)

isTriggering(config, order) ==
  \/ order.side = "buy" /\ config.direction = "LONG"
  \/ order.side = "sell" /\ config.direction = "SHORT"

\* a constraint applied to every fill of the strategy's side, open or close
clampApplies_anyTag(isTriggeringStrat, tradeSide) == isTriggeringStrat

\* if (isTriggeringStrat) { ... if (tradeSide === "open") { clamp } }
clampApplies(isTriggeringStrat, tradeSide) == isTriggeringStrat /\ tradeSide = "open"

\* a handler that refreshes the triggering strategy only
shouldRefresh_ownOnly(newAnchor, oldAnchor, isTriggeringStrat) == isTriggeringStrat

\* a handler that refreshes on every fill
shouldRefresh_always(newAnchor, oldAnchor, isTriggeringStrat) == TRUE

\* newAnchor !== oldAnchor || isTriggeringStrat
shouldRefresh(newAnchor, oldAnchor, isTriggeringStrat) ==
  newAnchor # oldAnchor \/ isTriggeringStrat

\* the callback of relatedContexts.map for strategy i, up to its first await
\* a handler that moves the anchor to the top level when it finds no bracket
withoutBracket_toEdge(s, x) == [s EXCEPT !.anchorIndices[keyOf(x[1])] = Len(levels) - 1]

\* if (nearest) { ... } has no else: without a bracket the callback returns
withoutBracket(s, x) == s

fillHandler(s, i, order, referencePrice) ==
  LET config == gridContexts[i]
      stratKey == keyOf(i)
      x == <<i, "fill">>
      nearest == getNearestLevels(config, referencePrice)
      isTriggeringStrat == isTriggering(config, order)
      s0 == [s EXCEPT !.fillNote[i] =
               [own |-> isTriggeringStrat, tradeSide |-> order.tradeSide,
                filledIdx |-> IF getNearestLevels(config, order.price) = NULL THEN UNDEFINED
                              ELSE closestIndex(getNearestLevels(config, order.price),
                                                order.price),
                refIdx |-> IF nearest = NULL THEN UNDEFINED
                           ELSE closestIndex(nearest, referencePrice),
                order |-> order, moved |-> FALSE, referencePrice |-> referencePrice]]
  IN IF nearest = NULL THEN withoutBracket(s0, x)
     ELSE
       LET newAnchor == closestIndex(nearest, referencePrice)
           oldAnchor == s0.anchorIndices[stratKey]
           filledNearest == getNearestLevels(config, order.price)
           finalAnchor ==
             IF clampApplies(isTriggeringStrat, order.tradeSide) /\ filledNearest # NULL
             THEN clampAnchor(config.direction, newAnchor,
                              closestIndex(filledNearest, order.price))
             ELSE newAnchor
           s1 == [noteWrite(s0, "anchorIndex", x) EXCEPT
                    !.anchorIndices[stratKey] = finalAnchor,
                    !.fillNote[i].moved = finalAnchor # oldAnchor]
           s2 == IF isTriggeringStrat /\ s1.isCloseDisabled[stratKey]
                 THEN [noteWrite(s1, "closeDisabled", x) EXCEPT
                         !.isCloseDisabled[stratKey] = FALSE]
                 ELSE s1
       IN IF shouldRefresh(newAnchor, oldAnchor, isTriggeringStrat)
          THEN refreshCall(s2, x)
          ELSE s1

RECURSIVE fillHandlers(_, _, _, _)
fillHandlers(s, i, order, referencePrice) ==
  IF i > Len(gridContexts) THEN s
  ELSE fillHandlers(IF gridContexts[i].symbol = order.symbol
                    THEN fillHandler(s, i, order, referencePrice) ELSE s,
                    i + 1, order, referencePrice)

\* await Promise.all(relatedContexts.map(...)) for the current order
fillAll(s, order, referencePrice) ==
  LET s1 == fillHandlers(s, 1, order, referencePrice)
  IN IF \E j \in Ctx : s1.rpc[<<j, "fill">>] # "idle"
     THEN [s1 EXCEPT !.ordersLoop = "handling"]
     ELSE processOrders([s1 EXCEPT !.batch = Tail(@)])

\* a fill loop that reacts to the status "filled" only
isFillUpdate_filledOnly(order) == order.status = "filled"

\* isFilled || isPartiallyFilledClosed
isFillUpdate(order) ==
  LET isFilled == order.status = "filled"
      isPartiallyFilledClosed == order.status = "closed" /\ order.filled > 0
  IN isFilled \/ isPartiallyFilledClosed

\* for (const order of orders): runs until an await suspends the loop
\* a reference that ignores the ticker
referencePrice_fill(order, ticker) == order.price

\* let referencePrice = order.price, replaced by ticker.last when
\* follow_market_on_fill fetched a ticker (ticker is NULL when none was fetched
\* or fetchTicker threw)
referencePrice(order, ticker) == IF ticker = NULL THEN order.price ELSE ticker.last

processOrders(s) ==
  IF s.batch = <<>> THEN [s EXCEPT !.ordersLoop = loopTop(s.isRunning)]
  ELSE
    LET order == Head(s.batch)
        relatedContexts == {i \in Ctx : gridContexts[i].symbol = order.symbol}
        continue == noteOrder([s EXCEPT !.batch = Tail(@)], "skipped", order)
    IN IF ~isFillUpdate(order)
       THEN processOrders(continue)
       ELSE IF relatedContexts = {}
       THEN processOrders(continue)
       ELSE IF s.appConfig.follow_market_on_fill
       THEN [s EXCEPT !.ordersLoop = "ticker"]
       ELSE fillAll(s, order, referencePrice(order, NULL))

\* ------------------------------------------ watchTickerLoop: one ticker
\* a drift loop without cooldown
inCooldown_never(nowMs, lastReset) == FALSE

\* the cooldown test on the strategy's last drift reset
inCooldown(nowMs, lastReset) == nowMs - lastReset < CooldownMs

\* the spacing the drift test uses: to the upper neighbour of the anchor, to the
\* lower one when the anchor is the top level
currentGridDiff(prices, anchorIdx) ==
  IF anchorIdx < Len(prices) - 1
  THEN prices[anchorIdx + 2] - prices[anchorIdx + 1]
  ELSE IF anchorIdx > 0
  THEN prices[anchorIdx + 1] - prices[anchorIdx]
  ELSE prices[2] - prices[1]

\* threshold = currentGridDiff * 2.0
driftThreshold(prices, anchorIdx) == currentGridDiff(prices, anchorIdx) * 2

\* one ticker of watchTickerLoop for a set anchor: the index the anchor is reset
\* to, or UNDEFINED when the iteration changes nothing
driftReset(prices, cfg, anchorIdx, lastReset, nowMs, currentPrice) ==
  LET anchorPrice == prices[anchorIdx + 1]
      nearest == nearestIn(prices, cfg, currentPrice)
  IN IF ~(Abs(currentPrice - anchorPrice) > driftThreshold(prices, anchorIdx))
     THEN UNDEFINED
     ELSE IF inCooldown(nowMs, lastReset) THEN UNDEFINED
     ELSE IF nearest = NULL THEN UNDEFINED
     ELSE IF closestIn(prices, nearest, currentPrice) = anchorIdx THEN UNDEFINED
     ELSE closestIn(prices, nearest, currentPrice)

driftHandler(s, i, currentPrice) ==
  LET config == gridContexts[i]
      stratKey == keyOf(i)
      x == <<i, "drift">>
      anchorIdx == s.anchorIndices[stratKey]
      continue == [s EXCEPT !.tickerLoop[i] = loopTop(s.isRunning)]
  IN IF anchorIdx = UNDEFINED
     THEN noteTicker(continue, "tickerWithoutAnchor", i, currentPrice)
     ELSE
       LET lastReset == s.lastAnchorResetTime[stratKey]
           newAnchor == driftReset(levels, config, anchorIdx, lastReset, s.now,
                                   currentPrice)
       IN IF newAnchor = UNDEFINED THEN continue
          ELSE refreshCall(
                 [noteWrite(noteWrite(s, "anchorIndex", x), "lastAnchorResetTime", x)
                  EXCEPT !.anchorIndices[stratKey] = newAnchor,
                         !.lastAnchorResetTime[stratKey] = s.now,
                         !.driftNote = [key |-> stratKey, at |-> s.now,
                                        previous |-> lastReset],
                         !.tickerLoop[i] = "refresh"], x)

\* --------------------------- syncActiveOrders as the engine sees it
\* The venue's order book is not part of the engine's state, and the awaits
\* inside one call (fetchOpenOrders, cancelOrders, createOrders) touch nothing
\* but the venue: a call in flight is one state, "sync", and the venue's answers
\* decide how it ends:
\*   "fetchError"  fetchOpenOrders throws
\*   "nothing"     the diff leaves nothing to place (createOrders is not called)
\*   "ok"          createOrders succeeds
\*   "noPosition"  createOrders fails with 22002 / No position to close
\*   "error"       createOrders fails otherwise
VenueAnswers == {"fetchError", "nothing", "ok", "noPosition", "error"}

\* the catch around createOrders: a no-position message is rethrown as an
\* error with code NO_POSITION, any other failure is only logged
innerCatch(answer) == IF answer = "noPosition" THEN "NO_POSITION" ELSE "none"

\* an outer catch that lets the error through to the caller
outerCatch_rethrow(thrown) == thrown

\* the catch around the whole body of syncActiveOrders: logs whatever was
\* thrown inside the try block and returns
outerCatch(thrown) == "none"

\* a syncActiveOrders whose fetchOpenOrders stands outside the try block
syncThrows_fetchOutside(answer) ==
  CASE answer = "fetchError" -> "fetchOpenOrders"
    [] answer \in {"noPosition", "error"} -> outerCatch(innerCatch(answer))
    [] OTHER -> "none"

\* what a call of syncActiveOrders throws to its caller
syncThrows(answer) ==
  CASE answer = "fetchError" -> outerCatch("fetchOpenOrders")
    [] answer \in {"noPosition", "error"} -> outerCatch(innerCatch(answer))
    [] OTHER -> "none"

\* Refresh after `await syncActiveOrders(...)`: catch NO_POSITION, disable close
\* orders and run the loop again; otherwise the loop ends and the lock is released
afterSync(s, x, thrown) ==
  LET stratKey == keyOf(x[1])
  IN IF thrown = "NO_POSITION"
     THEN refreshEnter([noteWrite(s, "closeDisabled", x) EXCEPT
                          !.isCloseDisabled[stratKey] = TRUE], x)
     ELSE refreshExit(s, x)

\* ---------------------------------------------------------------- actions
Alive == stopPc # "closed" /\ mainPc # "failed"

\* start(): fetchTicker of initialPositioning answers
InitTicker ==
  /\ Alive /\ mainPc = "initTicker"
  /\ \E p \in InitPrices : Commit(initialPositioning(Base, startIdx, p))

\* start(): fetchTicker throws, start() rethrows and main() exits the process
InitTickerFail ==
  /\ Alive /\ mainPc = "initTicker"
  /\ Commit([Base EXCEPT !.mainPc = "failed"])

\* the sync in flight for task x ends
SyncReturnOf(x) ==
  /\ Alive
  /\ \E answer \in VenueAnswers :
       /\ rpc[x] = "sync"
       /\ answer \in {"ok", "noPosition", "error"} => syncTargets[x] # <<>>
       /\ Commit(afterSync([Base EXCEPT !.syncNote =
                              IF answer = "noPosition"
                              THEN [key |-> keyOf(x[1]), thrown |-> syncThrows(answer)]
                              ELSE NULL],
                           x, syncThrows(answer)))

SyncReturn == \E x \in Tasks : SyncReturnOf(x)

\* watchOrders resolves with a batch of order updates
OrdersDeliver ==
  /\ Alive /\ ordersLoop = "await"
  /\ \E b \in Batches :
       Commit(processOrders([Base EXCEPT !.batch = b]))

\* fetchTicker of the fill loop answers (follow_market_on_fill); when it throws
\* the fill price stays the reference
OrdersTicker ==
  /\ Alive /\ ordersLoop = "ticker"
  /\ LET order == Head(batch)
         fetched(kind, price) ==
           noteEvent(Base, loopEvent(kind, 0, order.symbol, price, "", 0))
     IN \/ \E p \in TickerPrices :
             Commit(fillAll(fetched("fillTicker", p), order,
                            referencePrice(order, [last |-> p])))
        \/ Commit(fillAll(fetched("fillTickerFailed", 0), order,
                          referencePrice(order, NULL)))

\* watchOrders throws: the loop logs, sleeps one second and tests the flag
\* again (a sleeping loop reacts to nothing, like a loop no event arrives for)
OrdersError ==
  /\ Alive /\ ordersLoop = "await"
  /\ Commit(noteEvent([Base EXCEPT !.ordersLoop = afterLoopError(isRunning)],
                       loopEvent("error", 0, "", 0, "", 0)))

\* watchTicker resolves for the drift loop of strategy i
TickerDeliver ==
  /\ Alive
  /\ \E i \in Ctx, p \in TickerPrices :
       /\ tickerLoop[i] = "await"
       /\ Commit(driftHandler(Base, i, p))

\* watchTicker throws: the loop logs, sleeps one second and tests the flag again
TickerError ==
  /\ Alive
  /\ \E i \in Ctx :
       /\ tickerLoop[i] = "await"
       /\ Commit(noteTicker([Base EXCEPT !.tickerLoop[i] = afterLoopError(isRunning)],
                             "error", i, 0))

\* stop(): the cleanup calls for a symbol, by the flags of appConfig.default.
\* All strategies trade one symbol, so the loop over gridContexts makes them once.
\* The two flags are read by stop() only; their values are drawn when it reads them.
cleanupCalls(cancel_all_on_stop, close_all_on_stop) ==
  (IF cancel_all_on_stop THEN <<"cancelAllOrders">> ELSE <<>>)
  \o (IF close_all_on_stop THEN <<"flashClosePositions">> ELSE <<>>)

\* stop() between two cleanup calls; after the last one it returns and the
\* signal handler exits the process
stopAdvance(s, calls) ==
  [s EXCEPT !.stopCalls = calls,
            !.stopPc = IF calls = <<>> THEN "closed" ELSE "cleanup"]

\* SIGINT / SIGTERM: stop() clears the flag and starts its cleanup
Stop ==
  /\ Alive /\ stopPc = "none"
  /\ \E cancel_all_on_stop \in BOOLEAN, close_all_on_stop \in BOOLEAN :
       Commit(stopAdvance([Base EXCEPT !.isRunning = FALSE],
                          cleanupCalls(cancel_all_on_stop, close_all_on_stop)))

\* a cleanup call of stop() returns
StopCleanupReturn ==
  /\ Alive /\ stopPc = "cleanup"
  /\ Commit(stopAdvance(Base, Tail(stopCalls)))

ClockStep ==
  /\ Alive /\ now < clock.start + MaxClockSteps * clock.step
  /\ Commit([Base EXCEPT !.now = @ + clock.step])

Next ==
  \/ InitTicker
  \/ InitTickerFail
  \/ SyncReturn
  \/ OrdersDeliver
  \/ OrdersTicker
  \/ OrdersError
  \/ TickerDeliver
  \/ TickerError
  \/ Stop
  \/ StopCleanupReturn
  \/ ClockStep

Spec == Init /\ [][Next]_vars

\* The engine with fill handlers that use the fill price, without loop errors
\* and with the clock standing still.
InitFair == Init /\ ~appConfig.follow_market_on_fill

NextFair ==
  \/ InitTicker
  \/ InitTickerFail
  \/ SyncReturn
  \/ OrdersDeliver
  \/ TickerDeliver
  \/ Stop
  \/ StopCleanupReturn

\* Every await inside syncActiveOrders is a request of the exchange client, which
\* resolves or rejects within its timeout, and the event loop then runs the
\* continuation: every sync in flight eventually returns while the process lives.
SpecFair ==
  InitFair /\ [][NextFair]_vars /\ \A x \in Tasks : WF_vars(SyncReturnOf(x))

\* ------------------------------------- OrderExecutor.syncActiveOrders
\* One executor and the venue's order book; the calls come one after another.
SyncAnchors == {1}
\* the target lists Refresh passes for strategy i
SyncTargetLists(i) ==
  {windowTargets(gridContexts[i], a, cd, order_window) : a \in SyncAnchors, cd \in BOOLEAN}

\* fetchOpenOrders answers with the open orders in the order of their ids
RECURSIVE sortedById(_)
sortedById(orders) ==
  IF orders = {} THEN <<>>
  ELSE LET first == CHOOSE o \in orders : \A q \in orders : o.id <= q.id
       IN <<first>> \o sortedById(orders \ {first})

\* o.info.posSide || (o.side === "buy" ? "long" : "short")
orderPosSide(o) ==
  IF o.info.posSide # "" THEN o.info.posSide
  ELSE IF o.side = "buy" THEN "long" ELSE "short"

\* a call that takes every open order of the symbol for its own
currentStrategyOrders_all(openOrders, dir) == openOrders

currentStrategyOrders(openOrders, dir) ==
  SelectSeq(openOrders,
            LAMBDA o : orderPosSide(o) = (IF dir = "LONG" THEN "long" ELSE "short"))

\* a find predicate that matches nothing
matches_never(o, tgt) == FALSE

\* a find predicate that looks at the price alone
matches_priceOnly(o, tgt) == Abs(o.price - tgt.price) < 1

\* the find predicate: same price (prices are whole ticks, so a difference
\* below 1e-8 is no difference) and same open/close tag
matches(o, tgt) == Abs(o.price - tgt.price) < 1 /\ o.info.tradeSide = tgt.action

\* Array.find: the first matching order, NULL when there is none
find(orders, tgt) ==
  LET hits == {n \in 1..Len(orders) : matches(orders[n], tgt)}
  IN IF hits = {} THEN NULL ELSE <<orders[SetMin(hits)]>>

\* the loop over targetLevels: <<ordersToKeep, targetsToPlace>>
RECURSIVE diffTargets(_, _, _)
diffTargets(current, targets, n) ==
  IF n > Len(targets) THEN <<<<>>, <<>>>>
  ELSE LET rest == diffTargets(current, targets, n + 1)
           existingOrder == find(current, targets[n])
       IN IF existingOrder # NULL
          THEN <<existingOrder \o rest[1], rest[2]>>
          ELSE <<rest[1], <<targets[n]>> \o rest[2]>>

Range(seq) == {seq[n] : n \in 1..Len(seq)}

cancelIds(current, ordersToKeep) ==
  LET ordersToDispose == SelectSeq(current, LAMBDA o : o \notin Range(ordersToKeep))
  IN [n \in 1..Len(ordersToDispose) |-> ordersToDispose[n].id]

\* every order bought
orderSide_buy(direction) == "buy"

\* side: the position side the order works on, "buy" for LONG and "sell" for SHORT
orderSide(direction) == IF direction = "LONG" THEN "buy" ELSE "sell"

createRequests(dir, targetsToPlace) ==
  [n \in 1..Len(targetsToPlace) |->
     [symbol |-> "SOL", side |-> orderSide(dir),
      amount |-> targetsToPlace[n].amount, price |-> targetsToPlace[n].price,
      tradeSide |-> targetsToPlace[n].action]]

\* the venue opens the orders of a batch: ids in sequence, the position side
\* follows the order side (hedge mode)
placed(requests, firstId) ==
  {[id |-> firstId + n - 1, side |-> requests[n].side, price |-> requests[n].price,
    info |-> [posSide |-> IF requests[n].side = "buy" THEN "long" ELSE "short",
              tradeSide |-> requests[n].tradeSide]] : n \in 1..Len(requests)}

cacheKey == getStratKey("SOL", syncDirection)

\* history: an order changed at the venue behind the executor's back
unclean(call) == IF call = NULL THEN NULL ELSE [call EXCEPT !.clean = FALSE]
\* history: a request of the call was rejected
failedIn(call, request) == [unclean(call) EXCEPT !.failed = @ \cup {request}]

\* the call returns to its caller (thrown: what it throws, "none" for a return)
Returns(call, thrown) ==
  /\ syncPc' = "idle"
  /\ previousCall' = [direction |-> syncDirection, targetLevels |-> targetLevels,
                      issued |-> call.issued, clean |-> call.clean, thrown |-> thrown,
                      failed |-> call.failed]
  /\ thisCall' = NULL
  /\ ordersToCancel' = <<>>
  /\ batchCreates' = <<>>

\* step 6, or the end of the call when there is nothing to create
ThenCreate(call, creates) ==
  IF creates # <<>>
  THEN /\ syncPc' = "createOrders"
       /\ thisCall' = call
       /\ batchCreates' = creates
       /\ UNCHANGED <<previousCall, ordersToCancel>>
  ELSE Returns(call, "none")

\* a caller invokes syncActiveOrders, which suspends in fetchOpenOrders
SyncCall ==
  /\ syncPc = "idle"
  /\ \E i \in Ctx :
       \E targets \in SyncTargetLists(i) :
         /\ syncDirection' = gridContexts[i].direction
         /\ targetLevels' = targets
  /\ syncPc' = "fetchOpenOrders"
  /\ diffNote' = NULL
  /\ UNCHANGED <<venueOrders, nextOrderId, singleCancels, localOrderCache,
                 ordersToCancel, batchCreates, previousCall, thisCall>>
  /\ UNCHANGED <<engineVars, windowVars, ladderVars, tickerVars>>

\* a cache that is never pruned
reconcileCache_keep(cached, remoteIds) == cached

\* step 2.5: every cached id that is not among the fetched orders of the
\* strategy is deleted
reconcileCache(cached, remoteIds) == cached \cap remoteIds

\* fetchOpenOrders answers: steps 2 to 4, up to the next await
FetchReturn ==
  /\ syncPc = "fetchOpenOrders"
  /\ LET current == currentStrategyOrders(sortedById(venueOrders), syncDirection)
         remoteIds == {o.id : o \in Range(current)}
         diff == diffTargets(current, targetLevels, 1)
         cancels == cancelIds(current, diff[1])
         creates == createRequests(syncDirection, diff[2])
         call == [issued |-> Len(cancels) + Len(creates), clean |-> TRUE, failed |-> {}]
     IN /\ localOrderCache' = [localOrderCache EXCEPT
                                 ![cacheKey] = reconcileCache(@, remoteIds)]
        /\ diffNote' =
             [repeat |-> /\ previousCall # NULL
                         /\ previousCall.direction = syncDirection
                         /\ previousCall.targetLevels = targetLevels
                         /\ previousCall.clean,
              previousIssued |-> IF previousCall = NULL THEN 0 ELSE previousCall.issued,
              ordersToCancel |-> cancels, batchCreates |-> creates]
        /\ IF cancels # <<>>
           THEN /\ syncPc' = "cancelOrders"
                /\ thisCall' = call
                /\ ordersToCancel' = cancels
                /\ batchCreates' = creates
                /\ UNCHANGED previousCall
           ELSE ThenCreate(call, creates)
  /\ UNCHANGED <<venueOrders, nextOrderId, singleCancels, syncDirection, targetLevels>>
  /\ UNCHANGED <<engineVars, windowVars, ladderVars, tickerVars>>

\* fetchOpenOrders throws: the outer catch logs and the call returns
FetchFail ==
  /\ syncPc = "fetchOpenOrders"
  /\ Returns([issued |-> 0, clean |-> FALSE, failed |-> {"fetchOpenOrders"}],
             syncThrows("fetchError"))
  /\ diffNote' = NULL
  /\ UNCHANGED <<venueOrders, nextOrderId, singleCancels, localOrderCache,
                 syncDirection, targetLevels>>
  /\ UNCHANGED <<engineVars, windowVars, ladderVars, tickerVars>>

\* cancelOrders succeeds
CancelReturn ==
  /\ syncPc = "cancelOrders"
  /\ venueOrders' = {o \in venueOrders : o.id \notin Range(ordersToCancel)}
  /\ ThenCreate(thisCall, batchCreates)
  /\ diffNote' = NULL
  /\ UNCHANGED <<nextOrderId, singleCancels, localOrderCache, syncDirection, targetLevels>>
  /\ UNCHANGED <<engineVars, windowVars, ladderVars, tickerVars>>

\* a fallback that gives up after its first cancelOrder
fallbackCancels_first(ids) == {ids[1]}

\* for (const id of ordersToCancel) cancelOrder(id, symbol).catch(() => {})
fallbackCancels(ids) == Range(ids)

\* cancelOrders throws: one cancelOrder per id is sent and not awaited
CancelFail ==
  /\ syncPc = "cancelOrders"
  /\ singleCancels' = singleCancels \cup fallbackCancels(ordersToCancel)
  /\ ThenCreate(failedIn(thisCall, "cancelOrders"), batchCreates)
  /\ diffNote' = NULL
  /\ UNCHANGED <<venueOrders, nextOrderId, localOrderCache, syncDirection, targetLevels>>
  /\ UNCHANGED <<engineVars, windowVars, ladderVars, tickerVars>>

\* createOrders succeeds: the new ids go into the cache
CreateReturn ==
  /\ syncPc = "createOrders" /\ nextOrderId <= MaxOrderIds
  /\ LET newOrders == placed(batchCreates, nextOrderId)
     IN /\ venueOrders' = venueOrders \cup newOrders
        /\ nextOrderId' = nextOrderId + Len(batchCreates)
        /\ localOrderCache' = [localOrderCache EXCEPT
                                 ![cacheKey] = @ \cup {o.id : o \in newOrders}]
  /\ Returns(thisCall, "none")
  /\ diffNote' = NULL
  /\ UNCHANGED <<singleCancels, syncDirection, targetLevels>>
  /\ UNCHANGED <<engineVars, windowVars, ladderVars, tickerVars>>

\* createOrders throws, with the no-position message or another one
CreateFail ==
  /\ syncPc = "createOrders"
  /\ \E answer \in {"noPosition", "error"} :
       Returns(failedIn(thisCall, "createOrders"), syncThrows(answer))
  /\ diffNote' = NULL
  /\ UNCHANGED <<venueOrders, nextOrderId, singleCancels, localOrderCache,
                 syncDirection, targetLevels>>
  /\ UNCHANGED <<engineVars, windowVars, ladderVars, tickerVars>>

\* an order changes at the venue: the history of both calls is marked
OrderGoes(id) ==
  /\ venueOrders' = {o \in venueOrders : o.id # id}
  /\ previousCall' = unclean(previousCall)
  /\ thisCall' = unclean(thisCall)
  /\ diffNote' = NULL
  /\ UNCHANGED <<nextOrderId, localOrderCache, syncPc, syncDirection, targetLevels,
                 ordersToCancel, batchCreates>>
  /\ UNCHANGED <<engineVars, windowVars, ladderVars, tickerVars>>

\* a single cancelOrder sent by the fallback takes effect
SingleCancelLands ==
  \E id \in singleCancels :
    /\ singleCancels' = singleCancels \ {id}
    /\ OrderGoes(id)

\* a single cancelOrder fails: .catch(() => {})
SingleCancelFails ==
  \E id \in singleCancels :
    /\ singleCancels' = singleCancels \ {id}
    /\ diffNote' = NULL
    /\ UNCHANGED <<venueOrders, nextOrderId, localOrderCache, syncPc, syncDirection,
                   targetLevels, ordersToCancel, batchCreates, previousCall, thisCall>>
    /\ UNCHANGED <<engineVars, windowVars, ladderVars, tickerVars>>

\* an open order is filled
VenueFill ==
  \E o \in venueOrders :
    /\ OrderGoes(o.id)
    /\ UNCHANGED singleCancels

NextSync ==
  \/ SyncCall
  \/ FetchReturn
  \/ FetchFail
  \/ CancelReturn
  \/ CancelFail
  \/ CreateReturn
  \/ CreateFail
  \/ SingleCancelLands
  \/ SingleCancelFails
  \/ VenueFill

SpecSync == Init /\ [][NextSync]_vars

\* placeGridOrder(symbol, price, amount, direction, action): the request it
\* hands to createOrder
gridOrderRequest(symbol, price, amount, direction, action) ==
  [symbol |-> symbol, side |-> orderSide(direction), amount |-> amount,
   price |-> price, tradeSide |-> action]

PlaceInputs ==
  [price : {110}, amount : {1}, direction : {"LONG", "SHORT"}, action : {"open", "close"}]

\* one placeGridOrder call between two syncs: createOrder answers with the
\* order, rejects it as post-only (the call returns null) or throws
PlaceGridOrder ==
  /\ syncPc = "idle" /\ nextOrderId <= MaxOrderIds
  /\ \E in \in PlaceInputs, answer \in {"order", "postOnly", "error"} :
       LET request == gridOrderRequest("SOL", in.price, in.amount, in.direction,
                                       in.action)
       IN /\ diffNote' = [placeGridOrder |-> in, request |-> request,
                          answer |-> answer]
          /\ IF answer = "order"
             THEN /\ venueOrders' = venueOrders \cup placed(<<request>>, nextOrderId)
                  /\ nextOrderId' = nextOrderId + 1
             ELSE UNCHANGED <<venueOrders, nextOrderId>>
  /\ previousCall' = unclean(previousCall)
  /\ UNCHANGED <<singleCancels, localOrderCache, syncPc, syncDirection, targetLevels,
                 ordersToCancel, batchCreates, thisCall>>
  /\ UNCHANGED <<engineVars, windowVars, ladderVars, tickerVars>>

NextPlace == PlaceGridOrder \/ NextSync

SpecPlace == Init /\ [][NextPlace]_vars

\* ------------- one call of syncActiveOrders against a book that is not empty
\* orders of the account that rest at the venue when the call is made (left by
\* an earlier run of the process): two alike for the LONG strategy, one of the
\* SHORT strategy from a time when its anchor was higher, whose info carries
\* no posSide, a close of the long position
\* that the venue reports with the side of the trade, and an open of the LONG
\* strategy from a time when its anchor was higher
RestingOrders ==
  { [id |-> 101, side |-> "buy", price |-> 100,
     info |-> [posSide |-> "long", tradeSide |-> "open"]],
    [id |-> 102, side |-> "buy", price |-> 100,
     info |-> [posSide |-> "long", tradeSide |-> "open"]],
    [id |-> 103, side |-> "sell", price |-> 133,
     info |-> [posSide |-> "", tradeSide |-> "open"]],
    [id |-> 104, side |-> "sell", price |-> 121,
     info |-> [posSide |-> "long", tradeSide |-> "close"]],
    [id |-> 105, side |-> "buy", price |-> 121,
     info |-> [posSide |-> "long", tradeSide |-> "open"]] }

\* syncActiveOrders(symbol, direction, targetLevels) has just been called and
\* awaits fetchOpenOrders
InitBook ==
  /\ InitEngine
  /\ venueOrders \in SUBSET RestingOrders
  /\ nextOrderId = 1
  /\ singleCancels = {}
  /\ localOrderCache = [k \in StratKeys |-> {}]
  /\ syncPc = "fetchOpenOrders"
  /\ \E i \in Ctx :
       /\ syncDirection = gridContexts[i].direction
       /\ targetLevels \in SyncTargetLists(i)
  /\ ordersToCancel = <<>>
  /\ batchCreates = <<>>
  /\ previousCall = NULL
  /\ thisCall = NULL
  /\ diffNote = NULL
  /\ windowIn = NULL
  /\ windowOut = NULL
  /\ InitLadder
  /\ InitTickerNone

NextBook ==
  \/ FetchReturn
  \/ FetchFail
  \/ CancelReturn
  \/ CancelFail
  \/ CreateReturn
  \/ CreateFail
  \/ SingleCancelLands
  \/ SingleCancelFails

SpecBook == InitBook /\ [][NextBook]_vars

\* --------------------------------- the order window as a function
\* the inputs of one pass of Refresh: the strategy, its anchor, its closeDisabled
\* flag and appConfig.default.order_window
WindowInputs ==
  [ctx : Ctx, anchorIndex : 0..(Len(levels) - 1), closeDisabled : BOOLEAN,
   windowSize : 1..MaxWindow]

InitWindow ==
  /\ InitEngine
  /\ InitExecutor
  /\ windowIn \in WindowInputs
  /\ windowOut = NULL
  /\ InitLadder
  /\ InitTickerNone

\* step 1 of the loop body: the targets for windowIn
ComputeWindow ==
  /\ windowIn # NULL /\ windowOut = NULL
  /\ windowOut' = <<windowTargets(gridContexts[windowIn.ctx], windowIn.anchorIndex,
                                  windowIn.closeDisabled, windowIn.windowSize)>>
  /\ UNCHANGED <<engineVars, executorVars, windowIn, ladderVars, tickerVars>>

NextWindow == ComputeWindow

SpecWindow == InitWindow /\ [][NextWindow]_vars

\* ------------------------------- GridContext: the ladder and its ledger
\* gridSpread is drawn as a multiple of 1/SpreadDen; the running price of
\* calculateLevels is the exact fraction num/den
SpreadDen == 10
MaxLevels == 5         \* iterations of calculateLevels' while loop that are followed
MaxLives == 2          \* processes started one after the other on one ledger file
MaxRecords == 1        \* updateOrder calls

GridConfigs ==
  [lowerPrice : {0, 100}, upperPrice : {100, 122, 146}, gridSpread : {-1, 0, 1, 3}]
TickSizes == {1, 2, 30}
OrderIdStrings == {"7001"}
QueryPrices == {99, 100, 105, 121, 122, 146, 147}

\* currentPrice < upperPrice, for the fraction currentPrice
belowUpper(currentPrice, upperPrice) == currentPrice.num < upperPrice * currentPrice.den

\* currentPrice * (1 + gridSpread)
times1PlusSpread(currentPrice, gridSpread) ==
  [num |-> currentPrice.num * (SpreadDen + gridSpread), den |-> currentPrice.den * SpreadDen]

\* roundToTick: Math.round(p / tickSize) * tickSize, Math.round taking a half up
roundToTick(p, tickSize) ==
  LET m == p.den * tickSize
      q == p.num \div m
      r == p.num % m
  IN (q + (IF 2 * r >= m THEN 1 ELSE 0)) * tickSize

GridLevel(index, price) ==
  [index |-> index, price |-> price, buyOrderId |-> "", sellOrderId |-> ""]

\* the while loop of calculateLevels from the state (ls, currentPrice);
\* runs: the values currentPrice took, one per level. ended is FALSE when the
\* loop is still running after MaxLevels iterations.
RECURSIVE whileBelowUpper(_, _, _, _, _)
whileBelowUpper(ls, runs, cfg, tickSize, fuel) ==
  LET currentPrice == runs[Len(runs)]
  IN IF ~belowUpper(currentPrice, cfg.upperPrice)
     THEN [levels |-> ls, runs |-> runs, ended |-> TRUE]
     ELSE IF fuel = 0
     THEN [levels |-> ls, runs |-> runs, ended |-> FALSE]
     ELSE LET grown == times1PlusSpread(currentPrice, cfg.gridSpread)
          IN whileBelowUpper(Append(ls, GridLevel(Len(ls), roundToTick(grown, tickSize))),
                             Append(runs, grown), cfg, tickSize, fuel - 1)

calculateLevels(cfg, tickSize) ==
  LET currentPrice == [num |-> cfg.lowerPrice, den |-> 1]
  IN whileBelowUpper(<<GridLevel(0, roundToTick(currentPrice, tickSize))>>,
                     <<currentPrice>>, cfg, tickSize, MaxLevels)

\* `${n}` of a whole number: its sign and decimal digits
RECURSIVE digitsOf(_)
digitsOf(n) == IF n < 10 THEN <<n>> ELSE Append(digitsOf(n \div 10), n % 10)
numberToString(n) == [minus |-> n < 0, digits |-> digitsOf(Abs(n))]

\* Number(s), parseInt(s), parseFloat(s) of such a string
RECURSIVE valueOfDigits(_)
valueOfDigits(ds) ==
  IF ds = <<>> THEN 0 ELSE 10 * valueOfDigits(SubSeq(ds, 1, Len(ds) - 1)) + ds[Len(ds)]
parseNumber(s) == (IF s.minus THEN -1 ELSE 1) * valueOfDigits(s.digits)

\* saveToCsv: the comment line with the config, the header, one row per level
csvRow(l) ==
  [kind |-> "row",
   fields |-> <<numberToString(l.index), numberToString(l.price), l.buyOrderId, l.sellOrderId>>]
saveToCsv(cfg, ls) ==
  << [kind |-> "# config:",
      fields |-> <<numberToString(cfg.upperPrice), numberToString(cfg.lowerPrice),
                   numberToString(cfg.gridSpread)>>],
     [kind |-> "index,", fields |-> <<>>] >>
  \o [n \in 1..Len(ls) |-> csvRow(ls[n])]

\* a fingerprint test that takes every ledger for the current config's
checkConfigMatch_always(file, cfg) == TRUE

\* checkConfigMatch: the first line is the config comment and its three
\* numbers equal the config's
checkConfigMatch(file, cfg) ==
  LET firstLine == file[1]
  IN /\ firstLine.kind = "# config:"
     /\ parseNumber(firstLine.fields[1]) = cfg.upperPrice
     /\ parseNumber(firstLine.fields[2]) = cfg.lowerPrice
     /\ parseNumber(firstLine.fields[3]) = cfg.gridSpread

\* loadFromCsv: the lines that are neither comment nor header, parsed
loadFromCsv(file) ==
  LET dataLines == SelectSeq(file, LAMBDA line : line.kind \notin {"# config:", "index,"})
  IN [n \in 1..Len(dataLines) |->
        [index |-> parseNumber(dataLines[n].fields[1]),
         price |-> parseNumber(dataLines[n].fields[2]),
         buyOrderId |-> dataLines[n].fields[3],
         sellOrderId |-> dataLines[n].fields[4]]]

pricesOf(ls) == [n \in 1..Len(ls) |-> ls[n].price]

\* a process starts: new GridContext(cfg) and initialize(tickSize), which loads
\* the ledger when its config matches and builds and saves the ladder otherwise
Initialize ==
  /\ lives < MaxLives
  /\ \E cfg \in GridConfigs, tickSize \in TickSizes :
       /\ gcConfig' = cfg
       /\ gcTick' = tickSize
       /\ IF csvFile # NULL /\ checkConfigMatch(csvFile, cfg)
          THEN /\ gcLevels' = loadFromCsv(csvFile)
               /\ gcPc' = "ready"
               /\ initNote' = "loaded"
               /\ UNCHANGED <<csvFile, savedLevels, savedConfig>>
          ELSE LET built == calculateLevels(cfg, tickSize)
               IN /\ gcLevels' = built.levels
                  /\ IF built.ended
                     THEN /\ gcPc' = "ready"
                          /\ initNote' = "rebuilt"
                          /\ csvFile' = saveToCsv(cfg, built.levels)
                          /\ savedLevels' = built.levels
                          /\ savedConfig' = cfg
                     ELSE /\ gcPc' = "building"
                          /\ initNote' = ""
                          /\ UNCHANGED <<csvFile, savedLevels, savedConfig>>
  /\ lives' = lives + 1
  /\ nearestNote' = NULL /\ updateNote' = NULL
  /\ UNCHANGED <<recorded, engineVars, executorVars, windowVars,
                 tickerVars>>

\* an update that writes the id to both sides of the level
setOrderId_bothSides(ls, index, side, orderId) ==
  [ls EXCEPT ![index + 1].buyOrderId = orderId, ![index + 1].sellOrderId = orderId]

\* this.levels[index].buyOrderId = orderId, or sellOrderId for side "sell"
setOrderId(ls, index, side, orderId) ==
  IF side = "buy"
  THEN [ls EXCEPT ![index + 1].buyOrderId = orderId]
  ELSE [ls EXCEPT ![index + 1].sellOrderId = orderId]

\* updateOrder(index, side, orderId)
UpdateOrder ==
  /\ gcPc = "ready" /\ recorded < MaxRecords
  /\ \E index \in 0..Len(gcLevels), side \in {"buy", "sell"}, orderId \in OrderIdStrings :
       /\ updateNote' = [index |-> index, side |-> side, orderId |-> orderId]
       /\ IF index >= 0 /\ index < Len(gcLevels)
          THEN LET ls == setOrderId(gcLevels, index, side, orderId)
               IN /\ gcLevels' = ls
                  /\ csvFile' = saveToCsv(gcConfig, ls)
                  /\ savedLevels' = ls
                  /\ savedConfig' = gcConfig
          ELSE UNCHANGED <<gcLevels, csvFile, savedLevels, savedConfig>>
  /\ recorded' = recorded + 1
  /\ initNote' = "" /\ nearestNote' = NULL
  /\ UNCHANGED <<gcConfig, gcTick, gcPc, lives, engineVars, executorVars, windowVars,
                 tickerVars>>

\* getNearestLevels(currentPrice) on the ready context
NearestLevels ==
  /\ gcPc = "ready"
  /\ \E currentPrice \in QueryPrices :
       nearestNote' = [price |-> currentPrice,
                       nearest |-> nearestIn(pricesOf(gcLevels), gcConfig, currentPrice)]
  /\ initNote' = "" /\ updateNote' = NULL
  /\ UNCHANGED <<gcConfig, gcTick, gcLevels, gcPc, csvFile, lives, recorded, savedLevels,
                 savedConfig, engineVars, executorVars, windowVars,
                 tickerVars>>

NextLadder == Initialize \/ UpdateOrder \/ NearestLevels

SpecLadder == Init /\ [][NextLadder]_vars

\* ----------------------- one strategy's anchor over a built ladder
\* start() builds the ladder of a strategy with calculateLevels and
\* initialPositioning sets its anchor; watchTickerLoop then tests every ticker
\* against the anchor.  The ladders are those calculateLevels builds for the
\* valid configs, with every tick size of the ladder section and one of 5.
TickerTickSizes == TickSizes \cup {5}
LadderTickerPrices == {101, 110, 115, 139, 150}

builtLadders ==
  {<<cfg, pricesOf(calculateLevels(cfg, tickSize).levels)>> :
     cfg \in {c \in GridConfigs : c.upperPrice > c.lowerPrice /\ c.gridSpread > 0
                                    /\ c.lowerPrice > 0},
     tickSize \in TickerTickSizes}

InitTickerLadder ==
  /\ \E b \in builtLadders : tkConfig = b[1] /\ tkLevels = b[2]
  /\ tkAnchor = UNDEFINED
  /\ tkLastReset = 0
  /\ tkNow = clock.start
  /\ tkNote = NULL

InitOnLadder ==
  /\ InitEngine
  /\ InitExecutor
  /\ windowIn = NULL
  /\ windowOut = NULL
  /\ InitLadder
  /\ InitTickerLadder

\* initialPositioning: fetchTicker answers, the anchor becomes nearest[0].index
PositionOnLadder ==
  /\ tkAnchor = UNDEFINED
  /\ \E currentPrice \in LadderTickerPrices :
       LET nearest == nearestIn(tkLevels, tkConfig, currentPrice)
       IN /\ tkAnchor' = IF nearest = NULL THEN UNDEFINED ELSE initialAnchor(nearest)
          /\ tkNote' = NULL
  /\ UNCHANGED <<tkConfig, tkLevels, tkLastReset, tkNow, engineVars, executorVars,
                 windowVars, ladderVars>>

\* one iteration of watchTickerLoop with the anchor set
TickerOnLadder ==
  /\ tkAnchor # UNDEFINED
  /\ \E currentPrice \in LadderTickerPrices :
       LET newAnchor == driftReset(tkLevels, tkConfig, tkAnchor, tkLastReset, tkNow,
                                   currentPrice)
       IN /\ tkAnchor' = IF newAnchor = UNDEFINED THEN tkAnchor ELSE newAnchor
          /\ tkLastReset' = IF newAnchor = UNDEFINED THEN tkLastReset ELSE tkNow
          /\ tkNote' = [price |-> currentPrice, anchorIdx |-> tkAnchor,
                        lastReset |-> tkLastReset, refresh |-> newAnchor # UNDEFINED]
  /\ UNCHANGED <<tkConfig, tkLevels, tkNow, engineVars, executorVars, windowVars,
                 ladderVars>>

\* the wall clock moves on
TickerClock ==
  /\ tkNow < clock.start + MaxClockSteps * clock.step
  /\ tkNow' = tkNow + clock.step
  /\ tkNote' = NULL
  /\ UNCHANGED <<tkConfig, tkLevels, tkAnchor, tkLastReset, engineVars, executorVars,
                 windowVars, ladderVars>>

NextTicker == PositionOnLadder \/ TickerOnLadder \/ TickerClock

SpecTicker == InitOnLadder /\ [][NextTicker]_vars

\* ------------------------------------------------------------- properties
syncsInFlight(k) == {x \in Tasks : keyOf(x[1]) = k /\ rpc[x] = "sync"}

\* C1: for every strategy key, at most one syncActiveOrders call is in flight
\* at any time, however fill, drift and initial-positioning refreshes interleave.
NoOverlappingSync == \A k \in StratKeys : Cardinality(syncsInFlight(k)) <= 1

\* a Refresh waits for the lock while another one of the same key is inside sync
QueuedBehindSync ==
  \E k \in StratKeys :
    /\ Len(stratLocks[k]) >= 2
    /\ rpc[stratLocks[k][1]] = "sync"
    /\ rpc[stratLocks[k][2]] = "queued"

\* C2: every write to a strategy's anchorIndex, closeDisabled and
\* lastAnchorResetTime happens while the writer holds that strategy's lock.
WritesUnderLock == \A w \in writes : w.locked

\* C3: when the batch create fails with the no-position condition,
\* syncActiveOrders raises an error with code NO_POSITION to its caller.
NoPositionIsRaised == syncNote # NULL => syncNote.thrown = "NO_POSITION"

\* C4: when the venue rejects a batch create with the no-position condition
\* during a Refresh of a strategy, closeDisabled of that strategy becomes true.
NoPositionDisablesClose == syncNote # NULL => isCloseDisabled[syncNote.key]

ownOpenFill(i) ==
  fillNote[i] # NULL /\ fillNote[i].own /\ fillNote[i].tradeSide = "open"

protects(i) ==
  IF gridContexts[i].direction = "LONG"
  THEN anchorIndices[keyOf(i)] >= fillNote[i].filledIdx
  ELSE anchorIndices[keyOf(i)] <= fillNote[i].filledIdx

\* C7 as stated: after the fill handler processed an open fill on the strategy's
\* own side, the anchor is >= the filled level's index (LONG) or <= it (SHORT),
\* for every previous anchor and every reference price.
ProfitProtectionAnyReference == \A i \in Ctx : ownOpenFill(i) => protects(i)

\* C7: after the fill handler processed an open fill on the strategy's own side
\* with a reference price that has a bracket in the ladder, the anchor is >= the
\* filled level's index (LONG) or <= it (SHORT), for every previous anchor.
ProfitProtection ==
  \A i \in Ctx : ownOpenFill(i) /\ fillNote[i].refIdx # UNDEFINED => protects(i)

\* the constraint moved the anchor: the level closest to the reference price is
\* on the losing side of the filled level, and the anchor is the filled level
AnchorClamped ==
  \E i \in Ctx :
    /\ ownOpenFill(i) /\ fillNote[i].refIdx # UNDEFINED
    /\ fillNote[i].refIdx # fillNote[i].filledIdx
    /\ anchorIndices[keyOf(i)] = fillNote[i].filledIdx

\* C8: two drift resets of one strategy are never less than 5 seconds apart.
DriftResetsApart ==
  driftNote # NULL /\ driftNote.previous # 0
    => driftNote.at - driftNote.previous >= CooldownMs

\* a strategy is reset by drift for the second time
SecondDriftReset == driftNote # NULL /\ driftNote.previous # 0

\* C9: stop() runs its cleanup, and reports the engine closed, only when no
\* strategy lock is held (every in-flight Refresh has finished).
StopWaitsForRefresh ==
  [][stopPc = "none" /\ stopPc' # "none"
       => \A k \in StratKeys : ~isLocked(stratLocks'[k])]_vars

\* C10: once stop() has cleared the running flag, an event delivered to the
\* fill loop or a drift loop changes no anchor and starts no Refresh.
NoRefreshAfterStop ==
  [][stopPc # "none" /\ ~isRunning
       => /\ \A i \in Ctx : tickerLoop[i] = "await"
               => /\ tickerLoop'[i] # "refresh"
                  /\ rpc'[<<i, "drift">>] = "idle"
          /\ ordersLoop = "await"
               => /\ ordersLoop' \notin {"ticker", "handling"}
                  /\ \A i \in Ctx : rpc'[<<i, "fill">>] = "idle"
          /\ (ordersLoop = "await" /\ \A i \in Ctx : tickerLoop[i] \in {"await", "exited"})
               => anchorIndices' = anchorIndices]_vars

\* C6: syncActiveOrders is idempotent: a call that follows a call with the same
\* direction and target set, all of whose cancels and creates the venue applied,
\* with no order changed since that call read the book, issues no cancel and no
\* create.
SyncIdempotent ==
  diffNote # NULL /\ diffNote.repeat
    => diffNote.ordersToCancel = <<>> /\ diffNote.batchCreates = <<>>

\* the repeated call follows a call that did cancel or create orders
RepeatAfterWork == diffNote # NULL /\ diffNote.repeat /\ diffNote.previousIssued >= 2

\* the window of the specification: the levels within windowSize of the anchor
\* that exist, open below / close above for LONG, close below / open above for SHORT
expectedTargets(in) ==
  LET cfg == gridContexts[in.ctx]
      n == Len(levels)
      below == {in.anchorIndex - j : j \in {k \in 1..in.windowSize : in.anchorIndex - k >= 0}}
      above == {in.anchorIndex + j : j \in {k \in 1..in.windowSize : in.anchorIndex + k < n}}
  IN {[price |-> levels[idx + 1], amount |-> cfg.quantityPerGrid,
       action |-> IF cfg.direction = "LONG" THEN "open" ELSE "close"] : idx \in below}
     \cup
     {[price |-> levels[idx + 1], amount |-> cfg.quantityPerGrid,
       action |-> IF cfg.direction = "LONG" THEN "close" ELSE "open"] : idx \in above}

\* C11: with closeDisabled false the targets of a pass are exactly the levels
\* a-i >= 0 (open if LONG else close) and a+i < n (close if LONG else open),
\* i in 1..W, each once and with amount quantityPerGrid.
WindowIsExact ==
  windowOut # NULL /\ ~windowIn.closeDisabled
    => /\ Range(windowOut[1]) = expectedTargets(windowIn)
       /\ Len(windowOut[1]) = Cardinality(expectedTargets(windowIn))

\* a window of size >= 2 that is complete on both sides of the anchor
FullWindowComputed ==
  /\ windowOut # NULL /\ ~windowIn.closeDisabled
  /\ windowIn.windowSize >= 2
  /\ Len(windowOut[1]) = 2 * windowIn.windowSize

\* C12: while closeDisabled is set no target of a pass has action close, for
\* LONG and SHORT and every window size, and every open target is still there.
NoCloseWhileDisabled ==
  windowOut # NULL /\ windowIn.closeDisabled
    => /\ \A n \in 1..Len(windowOut[1]) : windowOut[1][n].action # "close"
       /\ Range(windowOut[1]) = {t \in expectedTargets(windowIn) : t.action = "open"}

\* a SHORT window that lost at least two consecutive close targets and kept an
\* open one
ConsecutiveClosesDropped ==
  /\ windowOut # NULL /\ windowIn.closeDisabled
  /\ gridContexts[windowIn.ctx].direction = "SHORT"
  /\ windowIn.windowSize >= 2 /\ windowIn.anchorIndex >= 2
  /\ windowOut[1] # <<>>

eventsOf(kind) == {e \in loopNote : e.kind = kind}

\* the lowest index whose level and the next one enclose the price
lowerBracketIndex(price) ==
  SetMin({j \in 0..(Len(levels) - 2) : levels[j + 1] <= price /\ price <= levels[j + 2]})

\* C13: initial positioning sets the anchor to the index of the lower level of
\* the bracket around the price and runs one Refresh (its first sync pass is in
\* flight with the window of that anchor); without a bracket the anchor stays
\* unset and no sync is issued.
InitialPositioningSetsLowerBracket ==
  \A e \in eventsOf("initTicker") :
    LET cfg == gridContexts[e.ctx]
        k == keyOf(e.ctx)
        x == <<e.ctx, "init">>
    IN IF getNearestLevels(cfg, e.price) = NULL
       THEN anchorIndices[k] = UNDEFINED /\ rpc[x] = "idle" /\ passes[x] = 0
       ELSE /\ anchorIndices[k] = lowerBracketIndex(e.price)
            /\ rpc[x] = "sync" /\ passes[x] = 1
            /\ syncTargets[x] = windowTargets(cfg, lowerBracketIndex(e.price), FALSE,
                                              order_window)

\* initial positioning found a bracket for the second strategy and started its
\* Refresh
SecondStrategyPositioned ==
  \E e \in eventsOf("initTicker") :
    e.ctx = Len(gridContexts) /\ rpc[<<e.ctx, "init">>] = "sync"

\* C14: after the drift loop of a strategy without anchor handled a ticker whose
\* price is strictly inside the ladder, the anchor is set and a Refresh is run.
IdleStrategyWakesOnTicker ==
  \A e \in eventsOf("tickerWithoutAnchor") :
    LET cfg == gridContexts[e.ctx]
    IN e.price > cfg.lowerPrice /\ e.price < cfg.upperPrice
         => /\ anchorIndices[keyOf(e.ctx)] # UNDEFINED
            /\ rpc[<<e.ctx, "drift">>] # "idle"

validIndex(a) == a \in 0..(Len(levels) - 1)

\* C15: an anchor that has a value never becomes unset, and every value an
\* anchor takes is a valid index of the ladder (0 <= anchor < number of levels).
AnchorStaysValid ==
  [][\A k \in StratKeys :
       /\ anchorIndices[k] # UNDEFINED => anchorIndices'[k] # UNDEFINED
       /\ anchorIndices'[k] # UNDEFINED => validIndex(anchorIndices'[k])]_vars

\* the fill handler wrote the anchors of both strategies in the last step, one to
\* the highest index a bracket gives
AnchorsMovedByFill ==
  /\ \A i \in Ctx : fillNote[i] # NULL /\ fillNote[i].refIdx # UNDEFINED
  /\ \E i \in Ctx : anchorIndices[keyOf(i)] = Len(levels) - 2
  /\ \A i \in Ctx : validIndex(anchorIndices[keyOf(i)])

refreshStarted(i) == rpc[<<i, "fill">>] # "idle"

\* C17 as stated: on a fill, a strategy on the fill's symbol runs Refresh if and
\* only if its final anchor differs from its previous anchor or it is the
\* strategy that triggered the fill.
RefreshIffMovedOrOwn ==
  \A i \in Ctx :
    fillNote[i] # NULL => (refreshStarted(i) <=> fillNote[i].moved \/ fillNote[i].own)

\* C17: on a fill whose reference price has a bracket in the strategy's ladder,
\* the strategy runs Refresh if and only if its final anchor differs from its
\* previous anchor or it is the strategy that triggered the fill; without a
\* bracket it runs no Refresh and keeps its anchor.
RefreshIffMovedOrOwnInBracket ==
  \A i \in Ctx :
    fillNote[i] # NULL
      => IF fillNote[i].refIdx # UNDEFINED
         THEN refreshStarted(i) <=> fillNote[i].moved \/ fillNote[i].own
         ELSE ~refreshStarted(i) /\ ~fillNote[i].moved

\* a strategy that did not trigger the fill kept its anchor and issued no sync,
\* while the triggering strategy runs its Refresh
BystanderKeepsStill ==
  \E i, j \in Ctx :
    /\ fillNote[i] # NULL /\ ~fillNote[i].own /\ ~fillNote[i].moved
    /\ fillNote[i].refIdx # UNDEFINED /\ ~refreshStarted(i)
    /\ fillNote[j] # NULL /\ fillNote[j].own /\ refreshStarted(j)

\* ---------------------------------------------------------------- C18
\* the updates the fill loop reacts to: filled, or closed with a filled quantity
qualifies(status, filled) == status = "filled" \/ (status = "closed" /\ filled > 0)
registeredOn(symbol) == {i \in Ctx : gridContexts[i].symbol = symbol}

\* C18: the fill loop invokes the fill handler exactly for the order updates
\* that are filled, or closed with a filled quantity above 0: each such update
\* is handled by every strategy registered on its symbol and by no other, an
\* update the loop passes over is not such an update or has no strategy on its
\* symbol, and a step that only passes over updates changes no anchor and
\* issues no sync.
FillLoopDispatch ==
  [][ LET handled == {i \in Ctx : fillNote'[i] # NULL}
          skipped == {e \in loopNote' : e.kind = "skipped"}
      IN /\ \A i \in handled :
               LET order == fillNote'[i].order
               IN /\ qualifies(order.status, order.filled)
                  /\ i \in registeredOn(order.symbol)
                  /\ \A j \in registeredOn(order.symbol) :
                       j \in handled /\ fillNote'[j].order = order
         /\ \A e \in skipped :
               ~qualifies(e.status, e.filled) \/ registeredOn(e.symbol) = {}
         /\ (skipped # {} /\ handled = {})
               => /\ anchorIndices' = anchorIndices
                  /\ \A i \in Ctx :
                       rpc[<<i, "fill">>] = "idle" => rpc'[<<i, "fill">>] = "idle" ]_vars

\* an order closed with a filled quantity was handled by both strategies of its
\* symbol
ClosedFillHandledByAll ==
  /\ \A i \in Ctx : fillNote[i] # NULL /\ fillNote[i].order.status = "closed"
  /\ Cardinality(registeredOn("SOL")) = 2

\* ---------------------------------------------------------------- C19
\* C19: Refreshes of different strategies are not serialized against each other:
\* a Refresh that waits for a lock waits behind a Refresh of its own strategy
\* that holds the lock of that strategy, never behind another strategy's.
WaitsOnlyForOwnStrategy ==
  \A x \in Tasks :
    rpc[x] = "queued"
      => LET holder == Head(stratLocks[keyOf(x[1])])
         IN holder # x /\ holder[1] = x[1] /\ rpc[holder] = "sync"

\* the two strategies of one symbol each have a sync in flight
SyncsOfTwoStrategies ==
  \E x, y \in Tasks :
    /\ x[1] # y[1] /\ gridContexts[x[1]].symbol = gridContexts[y[1]].symbol
    /\ rpc[x] = "sync" /\ rpc[y] = "sync"
    /\ holdsLock(Cur, x) /\ holdsLock(Cur, y)

\* ---------------------------------------------------------------- C20
\* the position of the loop an error event belongs to (ctx 0: the fill loop)
loopOf(e) == IF e.ctx = 0 THEN ordersLoop ELSE tickerLoop[e.ctx]

\* C20: an error raised inside the fill loop or a drift loop never ends that
\* loop while the running flag is set: after the error the loop awaits its
\* next event again.
LoopSurvivesError ==
  \A e \in eventsOf("error") : isRunning => loopOf(e) = "await"

\* the fill loop and a drift loop have each been through an error and await
\* their next event
LoopRetriedAfterError ==
  /\ isRunning
  /\ \E e \in eventsOf("error") : loopOf(e) = "await"
  /\ ordersLoop = "await" /\ \A i \in Ctx : tickerLoop[i] = "await"

\* ---------------------------------------------------------------- C21
\* a config the ladder is specified for
validConfig(cfg) == cfg.upperPrice > cfg.lowerPrice /\ cfg.gridSpread > 0
strictlyIncreasing(prices) == \A n \in 1..(Len(prices) - 1) : prices[n] < prices[n + 1]

\* C21: for every valid config and every tick size, the ladder calculateLevels
\* built is strictly increasing by price.
LadderStrictlyIncreasing ==
  gcPc = "ready" /\ initNote = "rebuilt" /\ validConfig(gcConfig)
    => strictlyIncreasing(pricesOf(gcLevels))

\* ---------------------------------------------------------------- C22
\* C22: building a ladder for a config with upperPrice <= lowerPrice or
\* gridSpread <= 0 fails and produces no ladder: no context holds levels for
\* such a config, is ready with it, or is still building for it.
InvalidConfigRejected ==
  gcConfig # NULL /\ ~validConfig(gcConfig)
    => gcLevels = <<>> /\ gcPc \notin {"ready", "building"}

\* ---------------------------------------------------------------- C23
\* C23: ladder construction terminates for every valid config, level 0 is
\* lowerPrice rounded to the nearest tick, the last level is the first one
\* whose price is >= upperPrice, and every earlier level is < upperPrice.
LadderEndsAtUpper ==
  gcConfig # NULL /\ validConfig(gcConfig)
    => /\ gcPc # "building"
       /\ initNote = "rebuilt"
            => LET prices == pricesOf(gcLevels)
               IN /\ prices[1] = roundToTick([num |-> gcConfig.lowerPrice, den |-> 1], gcTick)
                  /\ prices[Len(prices)] >= gcConfig.upperPrice
                  /\ \A n \in 1..(Len(prices) - 1) : prices[n] < gcConfig.upperPrice

\* ---------------------------------------------------------------- C24
fingerprint(cfg) == <<cfg.upperPrice, cfg.lowerPrice, cfg.gridSpread>>
noOrderIds(ls) == \A n \in 1..Len(ls) : ls[n].buyOrderId = "" /\ ls[n].sellOrderId = ""

\* C24: an initialize that finds the ledger of a save with the same
\* (upperPrice, lowerPrice, gridSpread) restores exactly the saved levels, order
\* ids included, and leaves the ledger as it is; with a fingerprint that differs
\* in any of the three it builds the ladder anew with all order ids empty and,
\* when it returns, has overwritten the ledger with that ladder.
LedgerRoundTrip ==
  [][ lives' = lives + 1 /\ csvFile # NULL
        => IF fingerprint(gcConfig') = fingerprint(savedConfig)
           THEN gcPc' = "ready" /\ gcLevels' = savedLevels /\ csvFile' = csvFile
           ELSE /\ gcLevels' = calculateLevels(gcConfig', gcTick').levels
                /\ noOrderIds(gcLevels')
                /\ gcPc' = "ready"
                     => csvFile' = saveToCsv(gcConfig', gcLevels') /\ csvFile' # csvFile ]_vars

\* a second process loaded a ledger that records an order id
LedgerReloadedWithOrderId ==
  /\ lives = 2 /\ initNote = "loaded"
  /\ gcLevels = savedLevels /\ ~noOrderIds(gcLevels)

\* ---------------------------------------------------------------- C25
\* C25: for a valid config, getNearestLevels(price) returns two adjacent levels
\* i and i+1 with level[i].price <= price <= level[i+1].price for every price
\* in [lowerPrice, upperPrice], the two boundaries included, and returns none
\* exactly when the price is outside that closed interval.
BracketOnClosedBand ==
  nearestNote # NULL /\ validConfig(gcConfig)
    => LET price == nearestNote.price
           nearest == nearestNote.nearest
       IN IF gcConfig.lowerPrice <= price /\ price <= gcConfig.upperPrice
          THEN /\ nearest # NULL
               /\ nearest[2] = nearest[1] + 1
               /\ gcLevels[nearest[1] + 1].price <= price
               /\ price <= gcLevels[nearest[2] + 1].price
          ELSE nearest = NULL

\* ---------------------------------------------------------------- C26
\* the live orders tagged with the position side of the call's strategy
liveOfStrategy ==
  {o \in venueOrders : orderPosSide(o) = (IF syncDirection = "LONG" THEN "long" ELSE "short")}
\* the live orders of the strategy at a target's price with the target's tag
liveFor(tgt) ==
  {o \in liveOfStrategy : o.price = tgt.price /\ o.info.tradeSide = tgt.action}
keptOrders == {o \in liveOfStrategy : o.id \notin Range(diffNote.ordersToCancel)}

\* C26: in one syncActiveOrders call, among the live orders of the strategy's
\* position side exactly one order is kept for each target that has a live
\* order with its price and tag, every other such live order (a duplicate at a
\* target's price included) is in the cancel set, and a create is issued
\* exactly for the targets without a matching live order.
DiffKeepsOnePerTarget ==
  diffNote # NULL
    => LET targets == Range(targetLevels)
           unmet == {tgt \in targets : liveFor(tgt) = {}}
           creates == diffNote.batchCreates
       IN /\ \A tgt \in targets :
               liveFor(tgt) # {} => Cardinality(keptOrders \cap liveFor(tgt)) = 1
          /\ \A o \in keptOrders : \E tgt \in targets : o \in liveFor(tgt)
          /\ Range(diffNote.ordersToCancel) \subseteq {o.id : o \in liveOfStrategy}
          /\ Len(creates) = Cardinality(unmet)
          /\ {[price |-> c.price, amount |-> c.amount, action |-> c.tradeSide] :
                 c \in Range(creates)} = unmet

\* two live orders match one target: one is kept and the other cancelled,
\* while another target has no live order and is created
DuplicateAtTargetCancelled ==
  /\ diffNote # NULL
  /\ \E tgt \in Range(targetLevels) :
       /\ Cardinality(liveFor(tgt)) = 2
       /\ Cardinality(liveFor(tgt) \cap keptOrders) = 1
  /\ Len(diffNote.ordersToCancel) = 1
  /\ Len(diffNote.batchCreates) = 1

\* ---------------------------------------------------------------- C27
ownPosSide == IF syncDirection = "LONG" THEN "long" ELSE "short"
venueIds == {o.id : o \in venueOrders}

\* C27: a syncActiveOrders call for one direction never cancels an open order
\* tagged with the other position side: every order that leaves the book
\* during the call, and every id the call asks to cancel, carries the position
\* side of the call's direction.
OtherSideUntouched ==
  [][ /\ \A o \in venueOrders \ venueOrders' : orderPosSide(o) = ownPosSide
      /\ \A o \in venueOrders :
           o.id \in Range(ordersToCancel') \cup singleCancels' => orderPosSide(o) = ownPosSide
    ]_vars

\* the SHORT strategy's call has cancelled its stale order while all four
\* orders of the long side rest untouched
ShortCancelledLongRests ==
  /\ syncDirection = "SHORT" /\ syncPc = "createOrders"
  /\ ordersToCancel = <<103>> /\ 103 \notin venueIds
  /\ {101, 102, 104, 105} \subseteq venueIds

\* ---------------------------------------------------------------- C28
\* C28: syncActiveOrders raises no error other than the no-position signal: a
\* call in which fetchOpenOrders, the batch cancel or the batch create failed
\* returns normally unless the create failed with the no-position signal, and
\* a request that failed is not sent again inside the call (a failed fetch or
\* create ends the call in that step, a failed batch cancel leads on to the
\* create or to the end).
SyncFailuresEndNormally ==
  [][ LET before == IF thisCall = NULL THEN {} ELSE thisCall.failed
          failsNow == IF syncPc' = "idle" THEN previousCall'.failed \ before
                      ELSE IF thisCall' = NULL THEN {}
                      ELSE thisCall'.failed \ before
      IN /\ syncPc # "idle" /\ syncPc' = "idle"
              => /\ previousCall'.thrown \in {"none", "NO_POSITION"}
                 /\ "createOrders" \notin previousCall'.failed
                      => previousCall'.thrown = "none"
         /\ syncPc # "idle"
              => /\ "fetchOpenOrders" \in failsNow
                      => syncPc' = "idle" /\ previousCall'.issued = 0
                 /\ "createOrders" \in failsNow => syncPc' = "idle"
                 /\ "cancelOrders" \in failsNow => syncPc' \in {"createOrders", "idle"}
    ]_vars

\* a call whose fetchOpenOrders failed has returned normally, with nothing
\* sent to a book that holds orders
FetchFailureReturned ==
  /\ syncPc = "idle" /\ previousCall # NULL
  /\ previousCall.failed = {"fetchOpenOrders"} /\ previousCall.thrown = "none"
  /\ previousCall.issued = 0
  /\ venueOrders # {} /\ singleCancels = {}

\* ---------------------------------------------------------------- C29
\* C29: when the batch cancel fails, syncActiveOrders issues a single cancel
\* for every id of the cancel set and still issues the batch create for the
\* unmet targets (or returns normally when there is none); a single cancel
\* that fails leaves the call where it is and makes it raise nothing.
CancelFallbackThenCreate ==
  [][ LET batchCancelFails ==
            /\ syncPc = "cancelOrders"
            /\ syncPc' = "idle" => "cancelOrders" \in previousCall'.failed
            /\ syncPc' # "idle" => "cancelOrders" \in thisCall'.failed
          singleCancelFails ==
            singleCancels' # singleCancels /\ singleCancels' \subseteq singleCancels
              /\ venueOrders' = venueOrders
      IN /\ batchCancelFails
              => /\ singleCancels' = singleCancels \cup Range(ordersToCancel)
                 /\ IF batchCreates # <<>>
                    THEN syncPc' = "createOrders" /\ batchCreates' = batchCreates
                    ELSE syncPc' = "idle" /\ previousCall'.thrown = "none"
         /\ singleCancelFails
              => /\ syncPc' = syncPc /\ batchCreates' = batchCreates
                 /\ previousCall # NULL => /\ previousCall' # NULL
                                           /\ previousCall'.thrown = previousCall.thrown
    ]_vars

\* after a failed batch cancel of several ids the create is awaited, one
\* single cancel has failed (its order still rests) and another is in flight
FallbackWithFailedSingleCancel ==
  /\ syncPc = "createOrders" /\ "cancelOrders" \in thisCall.failed
  /\ Len(ordersToCancel) >= 2
  /\ \E id \in Range(ordersToCancel) : id \in venueIds /\ id \notin singleCancels
  /\ \E id \in Range(ordersToCancel) : id \in singleCancels

\* ---------------------------------------------------------------- C30
\* index a is a level of the bracket around price that no level of the bracket
\* is closer to price than
closestOfBracket(a, price) ==
  \E lo \in 0..(Len(levels) - 2) :
    /\ priceAt(lo) <= price /\ price <= priceAt(lo + 1)
    /\ a \in {lo, lo + 1}
    /\ \A b \in {lo, lo + 1} : Abs(priceAt(a) - price) <= Abs(priceAt(b) - price)

\* C30: the profit-protection clamp is applied only to the strategy whose side
\* matches the fill and only when the fill is tagged open: for every other
\* strategy on the symbol, and for a close-tagged fill, the anchor after the
\* fill handler is the index of the bracket level closest to the reference
\* price (when the reference price has a bracket).
UnclampedAnchorIsClosest ==
  \A i \in Ctx :
    /\ fillNote[i] # NULL /\ fillNote[i].refIdx # UNDEFINED
    /\ ~fillNote[i].own \/ fillNote[i].tradeSide # "open"
    => /\ anchorIndices[keyOf(i)] = fillNote[i].refIdx
       /\ closestOfBracket(anchorIndices[keyOf(i)], fillNote[i].referencePrice)

\* a close-tagged fill of the LONG strategy with a reference price one level
\* below the filled level: the anchor goes below the filled level, and the
\* SHORT strategy follows to the same level
CloseFillNotClamped ==
  \E i, j \in Ctx :
    /\ fillNote[i] # NULL /\ fillNote[i].own /\ fillNote[i].tradeSide = "close"
    /\ gridContexts[i].direction = "LONG"
    /\ fillNote[i].refIdx # UNDEFINED /\ fillNote[i].refIdx < fillNote[i].filledIdx
    /\ anchorIndices[keyOf(i)] = fillNote[i].refIdx
    /\ fillNote[j] # NULL /\ ~fillNote[j].own
    /\ anchorIndices[keyOf(j)] = fillNote[i].refIdx

\* the neighbour spacing in the direction of travel: to the upper neighbour when
\* the ticker is above the anchor, to the lower one when it is below, and to the
\* only neighbour at a ladder boundary
localSpacing(prices, anchorIdx, price) ==
  LET up == anchorIdx + 2
      down == anchorIdx
      upper == prices[up] - prices[anchorIdx + 1]
      lower == prices[anchorIdx + 1] - prices[down]
  IN IF anchorIdx = 0 THEN upper
     ELSE IF anchorIdx = Len(prices) - 1 THEN lower
     ELSE IF price > prices[anchorIdx + 1] THEN upper ELSE lower

\* C31: a drift reset changes the anchor only when the ticker is more than twice
\* the local spacing (in the direction of travel) away from the anchor price; a
\* ticker within that threshold changes neither the anchor nor the reset time
\* and issues no sync.
DriftBeyondLocalSpacing ==
  tkNote # NULL
    => LET prices == tkLevels
           anchorIdx == tkNote.anchorIdx
           far == Abs(tkNote.price - prices[anchorIdx + 1])
                    > 2 * localSpacing(prices, anchorIdx, tkNote.price)
       IN /\ tkAnchor # anchorIdx => far
          /\ ~far => /\ tkAnchor = anchorIdx
                     /\ tkLastReset = tkNote.lastReset
                     /\ ~tkNote.refresh

\* C32: with follow_market_on_fill the reference price of a fill is the price of
\* the ticker fetched for it, and when that fetch fails the handlers still run,
\* with the fill price as reference; without the option the reference is always
\* the fill price.
FillReferencePrice ==
  /\ \A i \in Ctx :
       fillNote[i] # NULL
         => IF appConfig.follow_market_on_fill
            THEN \/ \E e \in eventsOf("fillTicker") :
                      fillNote[i].referencePrice = e.price
                 \/ /\ eventsOf("fillTickerFailed") # {}
                    /\ fillNote[i].referencePrice = fillNote[i].order.price
            ELSE fillNote[i].referencePrice = fillNote[i].order.price
  /\ \A e \in eventsOf("fillTickerFailed") :
       \A i \in Ctx : gridContexts[i].symbol = e.symbol => fillNote[i] # NULL

\* a fill handled with the ticker's price, which differs from the fill's
FillFollowsTicker ==
  \E i \in Ctx, e \in eventsOf("fillTicker") :
    /\ fillNote[i] # NULL
    /\ fillNote[i].referencePrice = e.price
    /\ e.price # fillNote[i].order.price

sideOfDirection(direction, side) ==
  (direction = "LONG" => side = "buy") /\ (direction = "SHORT" => side = "sell")

\* C33: every order syncActiveOrders or placeGridOrder creates has side buy for
\* a LONG strategy and side sell for a SHORT one, whether it opens or closes;
\* the action is carried by the tradeSide tag alone.
SideFollowsDirection ==
  /\ syncPc = "createOrders"
       => \A n \in 1..Len(batchCreates) :
            /\ sideOfDirection(syncDirection, batchCreates[n].side)
            /\ \E tl \in Range(targetLevels) :
                 /\ tl.price = batchCreates[n].price
                 /\ tl.action = batchCreates[n].tradeSide
  /\ diffNote # NULL /\ "placeGridOrder" \in DOMAIN diffNote
       => /\ sideOfDirection(diffNote.placeGridOrder.direction, diffNote.request.side)
          /\ diffNote.request.tradeSide = diffNote.placeGridOrder.action
          /\ diffNote.answer = "order"
               => \E o \in venueOrders :
                    /\ o.side = diffNote.request.side
                    /\ o.info.tradeSide = diffNote.placeGridOrder.action

\* a SHORT strategy's sync is about to create a close order with side sell,
\* beside a sell order placeGridOrder opened for SHORT
ShortCloseIsSell ==
  /\ syncPc = "createOrders" /\ syncDirection = "SHORT"
  /\ \E n \in 1..Len(batchCreates) :
       batchCreates[n].tradeSide = "close" /\ batchCreates[n].side = "sell"
  /\ \E o \in venueOrders : o.side = "sell" /\ o.info.tradeSide = "open" /\ o.price = 110

\* C34: the id cache of a strategy key only ever gains ids returned by a
\* successful batch create of that key, and right after the reconcile step of
\* a call every cached id of the call's key is the id of a live open order of
\* the strategy's position side.
CacheHoldsOwnLiveIds ==
  /\ [](diffNote # NULL /\ "repeat" \in DOMAIN diffNote
          => localOrderCache[cacheKey]
               \subseteq {o.id : o \in {q \in venueOrders : orderPosSide(q) = ownPosSide}})
  /\ [][\A k \in StratKeys :
          LET gained == localOrderCache'[k] \ localOrderCache[k]
          IN gained # {}
               => /\ syncPc = "createOrders" /\ syncPc' = "idle"
                  /\ k = cacheKey
                  /\ gained = {o.id : o \in venueOrders' \ venueOrders}
                  /\ \A o \in venueOrders' \ venueOrders :
                       orderPosSide(o) = ownPosSide]_vars

\* a reconcile step that dropped the id of an order that left the book and kept
\* the id of one that still rests
ReconcileDroppedId ==
  /\ diffNote # NULL /\ "repeat" \in DOMAIN diffNote
  /\ localOrderCache[cacheKey] # {}
  /\ \E id \in 1..(nextOrderId - 1) :
       /\ id \notin localOrderCache[cacheKey]
       /\ id \notin {o.id : o \in venueOrders}

\* the window Refresh computes for strategy i in state s
windowOf(i, anchors, closeDisabled) ==
  windowTargets(gridContexts[i], anchors[keyOf(i)], closeDisabled[keyOf(i)], order_window)

\* C35: no anchor change is left without a later sync that reads it: a step
\* that changes a strategy's anchor leaves a sync issued with the window of the
\* new anchor or a Refresh of the strategy queued for its lock; a queued Refresh
\* is never dropped, and when it is granted the lock it issues its sync with the
\* window of the anchor of that moment (if the anchor moves again later in the
\* step, another Refresh is queued).
AnchorChangeIsSynced ==
  [][\A i \in Ctx :
       LET synced ==
             \E k \in TaskKinds :
               \/ rpc'[<<i, k>>] = "queued"
               \/ /\ rpc'[<<i, k>>] = "sync"
                  /\ syncTargets'[<<i, k>>] = windowOf(i, anchorIndices', isCloseDisabled')
       IN /\ anchorIndices'[keyOf(i)] # anchorIndices[keyOf(i)] => synced
          /\ \A k \in TaskKinds :
               rpc[<<i, k>>] = "queued"
                 => \/ rpc'[<<i, k>>] = "queued"
                    \/ rpc'[<<i, k>>] = "sync" /\ synced]_vars

\* a drift reset moved the anchor while a sync of the same strategy, issued
\* with the window of the old anchor, is in flight: the drift's Refresh waits
\* for the lock
StaleSyncWithQueuedRefresh ==
  \E i \in Ctx :
    /\ driftNote # NULL /\ driftNote.key = keyOf(i)
    /\ rpc[<<i, "drift">>] = "queued"
    /\ \E k \in TaskKinds :
         /\ rpc[<<i, k>>] = "sync"
         /\ syncTargets[<<i, k>>] # windowOf(i, anchorIndices, isCloseDisabled)

\* C36: while the process lives, a locked key is eventually unlocked and a
\* Refresh waiting for a key's lock is eventually granted it (Refresh releases
\* the lock on each of its exits).
LockEventuallyReleased ==
  /\ \A k \in StratKeys : []<>(stratLocks[k] = <<>> \/ ~Alive)
  /\ \A x \in Tasks : []<>(rpc[x] # "queued" \/ ~Alive)
  /\ [][\A x \in Tasks : rpc[x] = "queued" /\ rpc'[x] # "queued" => holdsLock(Cur, x)']_vars

\* a Refresh waits behind the holder of the lock of its strategy
RefreshWaitsForLock ==
  \E x \in Tasks : rpc[x] = "queued" /\ Len(stratLocks[keyOf(x[1])]) = 2

\* C37: when syncActiveOrders has returned, no cancel request it issued is still
\* outstanding, on the per-id fallback path after a failed batch cancel
\* included, so that no sync runs beside a cancel of an earlier one.
NoCancelOutstandingAtReturn ==
  /\ syncPc = "idle" => singleCancels = {}
  /\ syncPc = "fetchOpenOrders" => singleCancels = {}

\* C38: when the reference price of a fill has no bracket in a strategy's
\* ladder, the fill handler leaves the strategy's anchor, closeDisabled and
\* reset time as they were and starts no Refresh for it, also for the strategy
\* that triggered the fill.
NoBracketNoEffect ==
  [][\A i \in Ctx :
       fillNote'[i] # NULL /\ fillNote'[i].refIdx = UNDEFINED
         => /\ anchorIndices'[keyOf(i)] = anchorIndices[keyOf(i)]
            /\ isCloseDisabled'[keyOf(i)] = isCloseDisabled[keyOf(i)]
            /\ lastAnchorResetTime'[keyOf(i)] = lastAnchorResetTime[keyOf(i)]
            /\ rpc'[<<i, "fill">>] = "idle"
            /\ \A w \in writes' : ~(w.key = keyOf(i) /\ w.by = "fill")]_vars

\* an open fill of a positioned strategy, by that strategy, handled with a
\* ticker price at or above upperPrice
OwnOpenFillAboveLadder ==
  \E i \in Ctx :
    /\ fillNote[i] # NULL /\ fillNote[i].own /\ fillNote[i].tradeSide = "open"
    /\ fillNote[i].refIdx = UNDEFINED
    /\ fillNote[i].referencePrice >= gridContexts[i].upperPrice
    /\ anchorIndices[keyOf(i)] # UNDEFINED

fillsInFlight == {j \in Ctx : rpc[<<j, "fill">>] # "idle"}

UpdateOrderFrame ==
  [][updateNote' # NULL
       => LET index == updateNote'.index
              side == updateNote'.side
          IN IF index >= 0 /\ index < Len(gcLevels)
             THEN /\ Len(gcLevels') = Len(gcLevels)
                  /\ \A n \in 1..Len(gcLevels) :
                       n # index + 1 => gcLevels'[n] = gcLevels[n]
                  /\ gcLevels'[index + 1].index = gcLevels[index + 1].index
                  /\ gcLevels'[index + 1].price = gcLevels[index + 1].price
                  /\ IF side = "buy"
                     THEN /\ gcLevels'[index + 1].buyOrderId = updateNote'.orderId
                          /\ gcLevels'[index + 1].sellOrderId = gcLevels[index + 1].sellOrderId
                     ELSE /\ gcLevels'[index + 1].sellOrderId = updateNote'.orderId
                          /\ gcLevels'[index + 1].buyOrderId = gcLevels[index + 1].buyOrderId
                  /\ csvFile' = saveToCsv(gcConfig, gcLevels')
                  /\ loadFromCsv(csvFile') = gcLevels'
             ELSE /\ gcLevels' = gcLevels
                  /\ csvFile' = csvFile]_vars

\* a sell id recorded at a level above the first, the ledger rewritten with it
SellIdRecorded ==
  /\ updateNote # NULL /\ updateNote.side = "sell" /\ updateNote.index > 0
  /\ updateNote.index < Len(gcLevels)
  /\ gcLevels[updateNote.index + 1].sellOrderId = updateNote.orderId
  /\ gcLevels[updateNote.index + 1].buyOrderId = ""
  /\ csvFile = saveToCsv(gcConfig, gcLevels)

====
